---- MODULE Spec2Model ----
(***************************************************************************)
(* tnfsh-timetable-core: the scheduling engine (the course graph, the hop  *)
(* predicates of scheduling/utils.py, the orchestrator of                  *)
(* scheduling/scheduling.py, the rotation and swap searches), the graph    *)
(* builder of scheduling/models.py, the streak-log parser, the three-tier  *)
(* caches and preload_all.                                                 *)
(***************************************************************************)
EXTENDS Integers, Sequences, FiniteSets, TLC

VARIABLES
    teacher_nodes,  \* TeacherNodeDict.root: teacher name -> courses (insertion-ordered dict, as a sequence of its values)
    class_nodes,    \* ClassNodeDict.root: class code -> courses (insertion-ordered dict, as a sequence of its values)
    pc,             \* "idle" before the call, "done" after it
    op,             \* which public call ran: "none", "fetch", "rotation", "swap"
    req,            \* the arguments of a fetch_course_node call: [name, weekday, period]
    course_node,    \* the node fetch_course_node located (NoneNode when it returned None)
    max_depth,      \* max_depth argument of rotation / swap
    paths,          \* the paths the returned generator yields, in order
    error,          \* "" or the exception that ended the call / the iteration
    final_course_nodes_set, \* the nodes the last run of build_course_node_from_log_dict created
    timetable,      \* TimeTable.table handed to TimetableSlotLogCrawler.parse: weekday rows of courses
    slot_log,       \* the list parse returned
    memory_cache,   \* _memory_cache: the memory tier, id -> value
    file_cache,     \* the files of the cache directory, id -> content
    cache_call,     \* the last cache.fetch call: its arguments, what it touched and how it ended
    preload_pc,     \* where preload_all is: "idle", "index", "gather", "done", "raised"
    preload_run,    \* the arguments of preload_all, the attempt of its retry decorator and what caused the retry
    tasks,          \* the process(target) tasks of the running preload_all
    semaphore,      \* permits left of asyncio.Semaphore(max_concurrent)
    requests,       \* target -> number of times its timetable was requested from upstream
    fn_call,        \* a function called on its own: its name and arguments
    fn_result       \* what that call returned

sched_vars == <<teacher_nodes, class_nodes, pc, op, req, course_node, max_depth, paths, error,
                final_course_nodes_set>>
parse_vars == <<timetable, slot_log>>
cache_vars == <<memory_cache, file_cache, cache_call>>
preload_vars == <<preload_pc, preload_run, tasks, semaphore, requests>>

fn_vars == <<fn_call, fn_result>>

vars == <<sched_vars, parse_vars, cache_vars, preload_vars, fn_vars>>

----------------------------------------------------------------------------
(* Bounds *)

MaxStreak == 2      \* longest streak of a node in the enumerated timetables
MaxDepth == 5       \* largest max_depth argument tried
MaxClique == 4      \* largest single-class clique (scenario S3 has 4)

(* Domains of the enumerated timetables *)
GenericTeachers == <<"A", "B">>
GenericClasses == {"101", "102"}
GenericPeriods == {1, 2, 3}
Letters == <<"A", "B", "C", "D", "E", "F", "G", "H", "I", "J">>
UnknownTeacher == "Z"

----------------------------------------------------------------------------
(* CourseNode: time = StreakTime(w, p, s); teachers / classes hold at most *)
(* one entry here, "-" standing for the empty dict.                        *)

NoTeacher == "-"
NoClass == "-"

CourseNode(w, p, s, free, t, c) ==
    [w |-> w, p |-> p, s |-> s, free |-> free, t |-> t, c |-> c]

\* Python None, shaped like a node so that it can be compared with one
NoneNode == [w |-> 0, p |-> 0, s |-> 0, free |-> FALSE, t |-> "None", c |-> "None"]

\* the value an operator returns where the Python function raises `kind`
Raise(kind) == [w |-> 0, p |-> 0, s |-> 0, free |-> FALSE, t |-> kind, c |-> "raise"]

IsRaise(n) == n.c = "raise"

\* StreakTime.__eq__ / __hash__: weekday and period only
SameTime(a, b) == a.w = b.w /\ a.p = b.p

\* dict.get(StreakTime(w, p, _)) on a courses dict
CoursesGet(courses, w, p) ==
    IF \E i \in 1..Len(courses) : courses[i].w = w /\ courses[i].p = p
    THEN courses[CHOOSE i \in 1..Len(courses) : courses[i].w = w /\ courses[i].p = p]
    ELSE NoneNode

\* courses[time] = node: an existing key keeps its position, a new key is appended
CoursesPut(courses, node) ==
    IF \E i \in 1..Len(courses) : SameTime(courses[i], node)
    THEN [i \in 1..Len(courses) |-> IF SameTime(courses[i], node) THEN node ELSE courses[i]]
    ELSE Append(courses, node)

\* `if time not in courses: courses[time] = node`
CoursesPutIfAbsent(courses, node) ==
    IF \E i \in 1..Len(courses) : SameTime(courses[i], node)
    THEN courses
    ELSE Append(courses, node)

Range(s) == {s[i] : i \in 1..Len(s)}

Reverse(s) == [i \in 1..Len(s) |-> s[Len(s) + 1 - i]]

EmptyGraph(teachers, classes) ==
    [t |-> [x \in teachers |-> <<>>], c |-> [x \in classes |-> <<>>]]

\* build_course of the scheduling tests: one node with one teacher and one
\* class, stored in both courses dicts (a later node at the same time
\* replaces the earlier one)
build_course(g, n) ==
    [t |-> [g.t EXCEPT ![n.t] = CoursesPut(@, n)],
     c |-> [g.c EXCEPT ![n.c] = CoursesPut(@, n)]]

RECURSIVE BuildAll(_, _, _)
BuildAll(g, nodes, i) ==
    IF i > Len(nodes) THEN g
    ELSE BuildAll(build_course(g, nodes[i]), nodes, i + 1)

\* the registration loop of build_course_node_from_log_dict: every node goes
\* into the courses of each of its teachers and classes unless the time is taken
register_node(g, n) ==
    [t |-> IF n.t = NoTeacher THEN g.t
           ELSE [g.t EXCEPT ![n.t] = CoursesPutIfAbsent(@, n)],
     c |-> IF n.c = NoClass THEN g.c
           ELSE [g.c EXCEPT ![n.c] = CoursesPutIfAbsent(@, n)]]

RECURSIVE RegisterAll(_, _, _)
RegisterAll(g, nodes, i) ==
    IF i > Len(nodes) THEN g
    ELSE RegisterAll(register_node(g, nodes[i]), nodes, i + 1)

----------------------------------------------------------------------------
(* Hop predicates, scheduling/utils.py *)

\* a pydantic model instance has neither __bool__ nor __len__: `if node:` is
\* true for every node and false for None only
Truthy(n) == n # NoneNode

\* list(course.classes.values())[0].courses.values()
get_neighbors(course) ==
    IF course.c = NoClass THEN <<Raise("IndexError")>>
    ELSE class_nodes[course.c]

\* is_free that forgets to look at the node: every existing node is free
is_free_any_node(course, mode, freed) ==
    course # NoneNode

\* the branch on `freed` and `mode` is a bare `pass`
is_free(course, mode, freed) ==
    IF course = NoneNode THEN FALSE
    ELSE course.free

\* range(time.period, 1) is empty for every period >= 1; a body that ran
\* would stop at the unbound name StreakTime (imported under TYPE_CHECKING)
find_streak_start_if_free(course) ==
    IF course.c = NoClass THEN Raise("IndexError")
    ELSE IF {i \in course.p..0 : TRUE} = {} THEN NoneNode
    ELSE Raise("NameError")

\* get_1_hop that demands a strictly longer free slot
get_1_hop_strict(src0, dst0, type, mode, freed) ==
    LET src == IF type = "fwd" THEN dst0 ELSE src0
        dst == IF type = "fwd" THEN src0 ELSE dst0
    IN  IF src.t = NoTeacher THEN Raise("IndexError")
        ELSE
        LET hop_1 == CoursesGet(teacher_nodes[src.t], dst.w, dst.p)
        IN  IF hop_1 = NoneNode THEN NoneNode
            ELSE IF is_free(hop_1, mode, freed)
                 THEN IF hop_1.s > dst.s THEN hop_1 ELSE NoneNode
                 ELSE IF hop_1.s = dst.s THEN hop_1 ELSE NoneNode

get_1_hop(src0, dst0, type, mode, freed) ==
    LET src == IF type = "fwd" THEN dst0 ELSE src0
        dst == IF type = "fwd" THEN src0 ELSE dst0
    IN  IF src.t = NoTeacher THEN Raise("IndexError")   \* list({}.values())[0]
        ELSE
        LET hop_1 == CoursesGet(teacher_nodes[src.t], dst.w, dst.p)
        IN  IF hop_1 = NoneNode THEN NoneNode
            ELSE IF Truthy(hop_1)
            THEN IF is_free(hop_1, mode, freed)
                 THEN IF hop_1.s >= dst.s THEN hop_1 ELSE NoneNode
                 ELSE IF hop_1.s = dst.s THEN hop_1 ELSE NoneNode
            ELSE LET candidate == find_streak_start_if_free(src)
                 IN  IF IsRaise(candidate) THEN candidate
                     ELSE IF Truthy(candidate)
                     THEN IF is_free(candidate, mode, freed) THEN candidate ELSE NoneNode
                     ELSE NoneNode

----------------------------------------------------------------------------
(* Orchestrator, scheduling/scheduling.py *)

\* for i in range(time.period, 0, -1): the first registered course at or
\* before the period, on the same weekday
RECURSIVE find_streak_start(_, _, _)
\* a lookup of the requested period alone
find_streak_start_no_walk(courses, w, i) ==
    IF i < 1 THEN NoneNode ELSE CoursesGet(courses, w, i)

find_streak_start(courses, w, i) ==
    IF i < 1 THEN NoneNode
    ELSE LET candidate == CoursesGet(courses, w, i)
         IN  IF Truthy(candidate) THEN candidate
             ELSE find_streak_start(courses, w, i - 1)

\* [node |-> the returned node, err |-> the exception raised, "" for none]
fetch_course_node(teacher_name, weekday, period) ==
    IF teacher_name \notin DOMAIN teacher_nodes
    THEN [node |-> NoneNode, err |-> "ValueError"]
    ELSE [node |-> find_streak_start(teacher_nodes[teacher_name], weekday, period),
          err |-> ""]

----------------------------------------------------------------------------
(* Rotation search (scheduling/rotation.py)                                *)
(* A search returns [paths |-> the paths yielded, in order,                *)
(*                   err |-> the exception that ended the iteration or ""] *)

NoPaths == [paths |-> <<>>, err |-> ""]

Raising(kind) == [paths |-> <<>>, err |-> kind]

\* the paths of `first`, then those of `rest` unless `first` raised
Then(first, rest) ==
    IF first.err # "" THEN first
    ELSE [paths |-> first.paths \o rest.paths, err |-> rest.err]

RECURSIVE dfs_cycle(_, _, _, _, _, _)
RECURSIVE dfs_cycle_from(_, _, _, _, _, _, _, _)

\* the loop over the neighbours of `current`, from the i-th on
dfs_cycle_from(start, current, depth, path, visited, md, nbs, i) ==
    IF i > Len(nbs) THEN NoPaths
    ELSE IF IsRaise(nbs[i]) THEN Raising(nbs[i].t)
    ELSE
    LET n == nbs[i]
        hop == get_1_hop(current, n, "bwd", "rotation", {})
        here == IF ~is_free(hop, "rotation", {}) THEN NoPaths
                ELSE IF n = start THEN [paths |-> <<Append(path, start)>>, err |-> ""]
                ELSE IF n \in visited THEN NoPaths
                ELSE dfs_cycle(start, n, depth + 1, Append(path, n), visited \cup {n}, md)
    IN  IF IsRaise(hop) THEN Raising(hop.t)
        ELSE IF here.err # "" THEN here
        ELSE Then(here, dfs_cycle_from(start, current, depth, path, visited, md, nbs, i + 1))

dfs_cycle(start, current, depth, path, visited, md) ==
    IF depth >= md THEN NoPaths
    ELSE dfs_cycle_from(start, current, depth, path, visited, md, get_neighbors(current), 1)

rotation(start, md) == dfs_cycle(start, start, 0, <<start>>, {}, md)

----------------------------------------------------------------------------
(* Swap search (scheduling/swap.py) *)

RECURSIVE dfs_swap_path(_, _, _, _, _)
RECURSIVE dfs_swap_path_from(_, _, _, _, _, _, _)

dfs_swap_path_from(start, current, depth, path, md, nbs, i) ==
    IF i > Len(nbs) THEN NoPaths
    ELSE IF IsRaise(nbs[i]) THEN Raising(nbs[i].t)
    ELSE
    LET next == nbs[i]
        freed == Range(path)
        rest == dfs_swap_path_from(start, current, depth, path, md, nbs, i + 1)
        hop1 == get_1_hop(current, next, "bwd", "swap", freed)
        hop2 == get_1_hop(current, next, "fwd", "swap", freed)
    IN  IF next = start THEN rest
        ELSE IF IsRaise(hop1) THEN Raising(hop1.t)
        ELSE IF ~is_free(hop1, "swap", freed) THEN rest
        ELSE IF IsRaise(hop2) THEN Raising(hop2.t)
        ELSE IF hop2 = NoneNode \/ hop2 = start THEN rest
        ELSE IF is_free(hop2, "swap", freed)
             THEN Then([paths |-> <<path \o <<current, next, hop2>> >>, err |-> ""], rest)
        ELSE Then(dfs_swap_path(start, hop2, depth + 1, path \o <<current, next>>, md), rest)

dfs_swap_path(start, current, depth, path, md) ==
    IF depth >= md THEN NoPaths
    ELSE IF current.free THEN [paths |-> <<Append(path, current)>>, err |-> ""]
    ELSE dfs_swap_path_from(start, current, depth, path, md, get_neighbors(current), 1)

\* every reversed backward path ++ [start] ++ forward path
RECURSIVE MergeSlices(_, _, _, _, _)
MergeSlices(start, fwd_slices, bwd_slices, f, b) ==
    IF f > Len(fwd_slices) THEN <<>>
    ELSE IF b > Len(bwd_slices) THEN MergeSlices(start, fwd_slices, bwd_slices, f + 1, 1)
    ELSE <<Reverse(bwd_slices[b]) \o <<start>> \o fwd_slices[f]>>
         \o MergeSlices(start, fwd_slices, bwd_slices, f, b + 1)

\* the body of the loop over the neighbours of start, for one neighbour
swap_via(start, course, md) ==
    LET bwd_hop == get_1_hop(start, course, "bwd", "swap", {})
        fwd_hop == get_1_hop(start, course, "fwd", "swap", {})
        bwd == IF bwd_hop.free THEN [paths |-> << <<bwd_hop>> >>, err |-> ""]
               ELSE dfs_swap_path(start, bwd_hop, 0, <<>>, md)
        fwd == IF fwd_hop.free THEN [paths |-> << <<course, fwd_hop>> >>, err |-> ""]
               ELSE dfs_swap_path(start, fwd_hop, 0, <<course>>, md)
    IN  IF IsRaise(bwd_hop) THEN Raising(bwd_hop.t)
        ELSE IF IsRaise(fwd_hop) THEN Raising(fwd_hop.t)
        ELSE IF bwd_hop = NoneNode \/ fwd_hop = NoneNode
                \/ bwd_hop = start \/ fwd_hop = start THEN NoPaths
        ELSE IF bwd.err # "" THEN Raising(bwd.err)
        ELSE IF fwd.err # "" THEN Raising(fwd.err)
        ELSE [paths |-> MergeSlices(start, fwd.paths, bwd.paths, 1, 1), err |-> ""]

RECURSIVE merge_paths_from(_, _, _, _)
merge_paths_from(start, md, nbs, i) ==
    IF i > Len(nbs) THEN NoPaths
    ELSE IF IsRaise(nbs[i]) THEN Raising(nbs[i].t)
    ELSE Then(swap_via(start, nbs[i], md), merge_paths_from(start, md, nbs, i + 1))

merge_paths(start, md) == merge_paths_from(start, md, get_neighbors(start), 1)

----------------------------------------------------------------------------
(* The timetables the calls run on.  A graph is [t |-> teacher_nodes,      *)
(* c |-> class_nodes].                                                     *)

\* One cell of a teacher's weekday-1 row: nothing registered, or the start
\* of a busy or free streak of length s in class c
Absent == [free |-> FALSE, c |-> NoClass, s |-> 0]

Cells == {Absent} \cup [free : BOOLEAN, c : GenericClasses, s : 1..MaxStreak]

LastPeriod == CHOOSE p \in GenericPeriods : \A q \in GenericPeriods : q <= p

\* the periods a streak covers after its first hold no entry of their own
Rows == {r \in [GenericPeriods -> Cells] :
            \A p \in GenericPeriods :
                r[p].s >= 2 =>
                    /\ p + r[p].s - 1 <= LastPeriod
                    /\ \A q \in (p + 1)..(p + r[p].s - 1) : r[q] = Absent}

Covers(r, p, q) == r[p] # Absent /\ p <= q /\ q < p + r[p].s

\* a class has at most one course at a time; teacher A teaches class 101
\* at period 1
Layouts == {l \in [Range(GenericTeachers) -> Rows] :
               /\ l["A"][1] # Absent /\ ~l["A"][1].free /\ l["A"][1].c = "101"
               /\ \A c \in GenericClasses : \A q \in GenericPeriods :
                     Cardinality({tp \in Range(GenericTeachers) \X GenericPeriods :
                                    /\ l[tp[1]][tp[2]].c = c
                                    /\ Covers(l[tp[1]], tp[2], q)}) <= 1}

RECURSIVE LayoutNodes(_, _, _, _)
LayoutNodes(l, ti, p, builder) ==
    IF ti > Len(GenericTeachers) THEN <<>>
    ELSE IF p > LastPeriod THEN LayoutNodes(l, ti + 1, 1, builder)
    ELSE LET cell == l[GenericTeachers[ti]][p]
             t == IF builder /\ cell.free THEN NoTeacher ELSE GenericTeachers[ti]
         IN  (IF cell = Absent THEN <<>>
              ELSE <<CourseNode(1, p, cell.s, cell.free, t, cell.c)>>)
             \o LayoutNodes(l, ti, p + 1, builder)

\* built with build_course, as the scheduling tests do: a free period is a
\* node of the teacher
HelperGraphs ==
    {BuildAll(EmptyGraph(Range(GenericTeachers), GenericClasses),
              LayoutNodes(l, 1, 1, FALSE), 1) : l \in Layouts}

\* built by build_course_node_from_log_dict: a free period is a node of the
\* class only, with no teacher
BuilderGraphs ==
    {RegisterAll(EmptyGraph(Range(GenericTeachers), GenericClasses),
                 LayoutNodes(l, 1, 1, TRUE), 1) : l \in Layouts}

HomeClass(i) == "10" \o ToString(i + 1)

\* Scenario S3 for k teachers: teacher i teaches class 101 at period i and
\* is free in a class of its own at every other period; with blocked, the
\* first teacher's period 2 is busy (scenario S2)
RECURSIVE CliqueNodes(_, _, _, _)
CliqueNodes(k, i, p, blocked) ==
    IF i > k THEN <<>>
    ELSE IF p > k THEN CliqueNodes(k, i + 1, 1, blocked)
    ELSE <<IF p = i THEN CourseNode(1, p, 1, FALSE, Letters[i], "101")
           ELSE CourseNode(1, p, 1, ~(blocked /\ i = 1 /\ p = 2), Letters[i], HomeClass(i))>>
         \o CliqueNodes(k, i, p + 1, blocked)

CliqueGraph(k, blocked) ==
    BuildAll(EmptyGraph({Letters[i] : i \in 1..k}, {"101"} \cup {HomeClass(i) : i \in 1..k}),
             CliqueNodes(k, 1, 1, blocked), 1)

CliqueGraphs == {CliqueGraph(k, b) : k \in 1..MaxClique, b \in BOOLEAN}

\* The chain of test_no_valid_path_in_long_chain for n teachers, four
\* periods each: teacher i (0-based idx) is free at period (idx % 3) + 2
\* except the last one; class_i holds period 1 of teacher i and period
\* ((i - 1) % 3) + 2 of teacher i + 1; every other node is left without a
\* class.  With last_free the last teacher's period 1 is free, which gives
\* the chain an end.
ChainN == 10

ChainClass(n, i, p) ==
    IF p = 1 /\ i < n THEN "class_" \o ToString(i)
    ELSE IF i >= 2 /\ p = ((i - 2) % 3) + 2 THEN "class_" \o ToString(i - 1)
    ELSE NoClass

RECURSIVE ChainNodes(_, _, _, _)
ChainNodes(n, i, p, last_free) ==
    IF i > n THEN <<>>
    ELSE IF p > 4 THEN ChainNodes(n, i + 1, 1, last_free)
    ELSE <<CourseNode(1, p, 1,
                      (i < n /\ p = ((i - 1) % 3) + 2) \/ (last_free /\ i = n /\ p = 1),
                      Letters[i], ChainClass(n, i, p))>>
         \o ChainNodes(n, i, p + 1, last_free)

\* teacher.courses[time] = node; cls.courses[time] = node for the nodes
\* that are given a class
chain_place(g, n) ==
    [t |-> [g.t EXCEPT ![n.t] = CoursesPut(@, n)],
     c |-> IF n.c = NoClass THEN g.c ELSE [g.c EXCEPT ![n.c] = CoursesPut(@, n)]]

RECURSIVE ChainPlaceAll(_, _, _)
ChainPlaceAll(g, nodes, i) ==
    IF i > Len(nodes) THEN g
    ELSE ChainPlaceAll(chain_place(g, nodes[i]), nodes, i + 1)

ChainGraph(n, last_free) ==
    ChainPlaceAll(EmptyGraph({Letters[i] : i \in 1..n},
                             {"class_" \o ToString(i) : i \in 1..(n - 1)}),
                  ChainNodes(n, 1, 1, last_free), 1)

ChainGraphs == {ChainGraph(n, TRUE) : n \in 2..ChainN} \cup {ChainGraph(ChainN, FALSE)}

\* The timetable of test_complex_swap_chain, in the order of its
\* build_course calls
ComplexNodes ==
    << CourseNode(1, 1, 1, FALSE, "A", "101"), CourseNode(1, 2, 1, FALSE, "A", "102"),
       CourseNode(1, 3, 1, FALSE, "A", "spare"), CourseNode(1, 4, 1, FALSE, "A", "spare"),
       CourseNode(1, 5, 1, TRUE, "A", "spare"),
       CourseNode(1, 1, 1, FALSE, "B", "104"), CourseNode(1, 2, 1, FALSE, "B", "101"),
       CourseNode(1, 3, 1, FALSE, "B", "spare"), CourseNode(1, 4, 1, FALSE, "B", "spare"),
       CourseNode(1, 5, 1, TRUE, "B", "spare"),
       CourseNode(1, 1, 1, FALSE, "C", "103"), CourseNode(1, 2, 1, FALSE, "C", "104"),
       CourseNode(1, 3, 1, TRUE, "C", "spare"), CourseNode(1, 4, 1, FALSE, "C", "spare"),
       CourseNode(1, 5, 1, FALSE, "C", "spare"),
       CourseNode(1, 1, 1, TRUE, "D", "spare"), CourseNode(1, 2, 1, TRUE, "D", "spare"),
       CourseNode(1, 3, 1, FALSE, "D", "103"), CourseNode(1, 4, 1, FALSE, "D", "spare"),
       CourseNode(1, 5, 1, FALSE, "D", "102") >>

ComplexGraph ==
    BuildAll(EmptyGraph({"A", "B", "C", "D"}, {"101", "102", "103", "104", "spare"}),
             ComplexNodes, 1)

\* Scenario S1 / S4 (test_simplest_rotation_path, test_basic_path_stops_at_first_free)
BasicNodes ==
    << CourseNode(1, 1, 1, FALSE, "A", "101"), CourseNode(1, 2, 1, TRUE, "A", "102"),
       CourseNode(1, 1, 1, TRUE, "B", "103"), CourseNode(1, 2, 1, FALSE, "B", "101") >>

BasicGraph == BuildAll(EmptyGraph({"A", "B"}, {"101", "102", "103"}), BasicNodes, 1)

Graphs == HelperGraphs \cup BuilderGraphs \cup CliqueGraphs \cup ChainGraphs
          \cup {ComplexGraph, BasicGraph}

----------------------------------------------------------------------------
(* The calls *)

Weekdays == {1, 2}
RequestPeriods == 1..5
NoReq == [name |-> "", weekday |-> 0, period |-> 0]

\* the parts of the process a scheduling call does not touch
ParseIdle == timetable = <<>> /\ slot_log = <<>>
FnIdle == fn_call = <<>> /\ fn_result = <<>>
CacheIdle == memory_cache = <<>> /\ file_cache = <<>> /\ cache_call = <<>>
PreloadIdle ==
    /\ preload_pc = "idle"
    /\ preload_run = <<>>
    /\ tasks = <<>>
    /\ semaphore = 0
    /\ requests = <<>>

Init ==
    /\ \E g \in Graphs : teacher_nodes = g.t /\ class_nodes = g.c
    /\ pc = "idle"
    /\ op = "none"
    /\ req = NoReq
    /\ course_node = NoneNode
    /\ max_depth = 0
    /\ paths = <<>>
    /\ error = ""
    /\ final_course_nodes_set = {}
    /\ ParseIdle /\ CacheIdle /\ PreloadIdle /\ FnIdle

\* Scheduling.fetch_course_node(teacher_name, weekday, period)
FetchCourseNode ==
    /\ pc = "idle"
    /\ \E name \in DOMAIN teacher_nodes \cup {UnknownTeacher}, w \in Weekdays, q \in RequestPeriods :
         LET r == fetch_course_node(name, w, q)
         IN  /\ req' = [name |-> name, weekday |-> w, period |-> q]
             /\ course_node' = r.node
             /\ error' = r.err
    /\ pc' = "done"
    /\ op' = "fetch"
    /\ UNCHANGED <<teacher_nodes, class_nodes, max_depth, paths, final_course_nodes_set,
                    parse_vars, fn_vars, cache_vars, preload_vars>>

\* what fetch_course_node can return for the arguments a caller may pass
FetchOutcomes ==
    {fetch_course_node(name, w, q) :
        name \in DOMAIN teacher_nodes \cup {UnknownTeacher}, w \in Weekdays, q \in RequestPeriods}

\* a call that hands the search one more level than the caller asked for
Search_one_deeper(mode, r, md) ==
    LET found == r.err = "" /\ Truthy(r.node)
        res == IF ~found THEN Raising("ValueError")
               ELSE IF mode = "rotation" THEN rotation(r.node, md + 1)
               ELSE merge_paths(r.node, md + 1)
    IN  /\ course_node' = r.node
        /\ paths' = res.paths
        /\ error' = res.err
        /\ max_depth' = md
        /\ op' = mode
        /\ pc' = "done"
        /\ UNCHANGED <<teacher_nodes, class_nodes, req, final_course_nodes_set,
                        parse_vars, fn_vars, cache_vars, preload_vars>>

\* the outcome of Scheduling.rotation / Scheduling.swap: r is what
\* fetch_course_node returned for the arguments; raise if there is no
\* node, else run the search and iterate it to its end
Search(mode, r, md) ==
    LET found == r.err = "" /\ Truthy(r.node)
        res == IF ~found THEN Raising("ValueError")
               ELSE IF mode = "rotation" THEN rotation(r.node, md)
               ELSE merge_paths(r.node, md)
    IN  /\ course_node' = r.node
        /\ paths' = res.paths
        /\ error' = res.err
        /\ max_depth' = md
        /\ op' = mode
        /\ pc' = "done"
        /\ UNCHANGED <<teacher_nodes, class_nodes, req, final_course_nodes_set,
                        parse_vars, fn_vars, cache_vars, preload_vars>>

Rotation ==
    /\ pc = "idle"
    /\ \E r \in FetchOutcomes, md \in 1..MaxDepth : Search("rotation", r, md)

Swap ==
    /\ pc = "idle"
    /\ \E r \in FetchOutcomes, md \in 1..MaxDepth : Search("swap", r, md)

Next == FetchCourseNode \/ Rotation \/ Swap

Spec == Init /\ [][Next]_vars

----------------------------------------------------------------------------
(* The hop predicates called on their own, on the nodes of a graph *)

\* every node registered in the graph
AllNodes == UNION {Range(teacher_nodes[t]) : t \in DOMAIN teacher_nodes}
            \cup UNION {Range(class_nodes[c]) : c \in DOMAIN class_nodes}

\* the freed sets tried: none yet, or every node of the graph
FreedSets == {{}, AllNodes}

Modes == {"rotation", "swap"}

HopCall(fn, src, dst, type, mode, freed) ==
    [fn |-> fn, src |-> src, dst |-> dst, type |-> type, mode |-> mode, freed |-> freed]

HopResult(bool, node) == [bool |-> bool, node |-> node]

InitHop ==
    /\ \E g \in HelperGraphs \cup BuilderGraphs : teacher_nodes = g.t /\ class_nodes = g.c
    /\ pc = "idle"
    /\ op = "none"
    /\ req = NoReq
    /\ course_node = NoneNode
    /\ max_depth = 0
    /\ paths = <<>>
    /\ error = ""
    /\ final_course_nodes_set = {}
    /\ fn_call = <<>>
    /\ fn_result = <<>>
    /\ ParseIdle /\ CacheIdle /\ PreloadIdle

\* is_free(course, mode, freed)
CallIsFree ==
    /\ pc = "idle"
    /\ \E course \in AllNodes \cup {NoneNode}, mode \in Modes, freed \in FreedSets :
        /\ fn_call' = HopCall("is_free", course, NoneNode, "", mode, freed)
        /\ fn_result' = HopResult(is_free(course, mode, freed), NoneNode)
    /\ pc' = "done"
    /\ op' = "is_free"
    /\ UNCHANGED <<teacher_nodes, class_nodes, req, course_node, max_depth, paths, error,
                    final_course_nodes_set, parse_vars, cache_vars, preload_vars>>

\* get_1_hop(src, dst, type=type, mode=mode, freed=freed)
CallGet1Hop ==
    /\ pc = "idle"
    /\ \E src \in AllNodes, dst \in AllNodes, type \in {"fwd", "bwd"}, mode \in Modes,
          freed \in FreedSets :
        /\ fn_call' = HopCall("get_1_hop", src, dst, type, mode, freed)
        /\ fn_result' = HopResult(FALSE, get_1_hop(src, dst, type, mode, freed))
    /\ pc' = "done"
    /\ op' = "get_1_hop"
    /\ UNCHANGED <<teacher_nodes, class_nodes, req, course_node, max_depth, paths, error,
                    final_course_nodes_set, parse_vars, cache_vars, preload_vars>>

NextHop == CallIsFree \/ CallGet1Hop

SpecHop == InitHop /\ [][NextHop]_vars

----------------------------------------------------------------------------
(* The graph builder, scheduling/models.py.  A streak log maps             *)
(* (source, StreakTime) to a CourseInfo or None; its keys compare by       *)
(* weekday and period, so a log is a function of (source, weekday, period) *)
(* giving [s |-> streak of the key, info |-> the value].  All entries of   *)
(* the enumerated logs are at one time, (LogWeekday, LogPeriod).           *)

LogTeachers == {"A", "B"}
LogClasses == {"101", "102"}
LogWeekday == 1
LogPeriod == 1
LogStreaks == {1, 2}

\* CourseInfo(subject, counterpart); counterpart is a list or None
CourseInfo(subject, counterpart) ==
    [none |-> FALSE, subject |-> subject, counterpart |-> counterpart, counterpart_none |-> FALSE]

\* CourseInfo(subject, counterpart=None)
CourseInfoNoCounterpart(subject) ==
    [none |-> FALSE, subject |-> subject, counterpart |-> <<>>, counterpart_none |-> TRUE]

\* the value None: a free period
NoneInfo == [none |-> TRUE, subject |-> "", counterpart |-> <<>>, counterpart_none |-> TRUE]

\* the key is not in the log
NoEntry == [s |-> 0, info |-> NoneInfo]

\* what a class's timetable can hold: a free period, or a lesson with no,
\* one or two teachers
ClassCells ==
    {NoEntry} \cup
    {[s |-> s, info |-> i] :
        s \in LogStreaks,
        i \in {NoneInfo} \cup {CourseInfo("m", cp) : cp \in {<<>>, <<"A">>, <<"B">>, <<"A", "B">>}}}

\* what a teacher's timetable can hold: a free period, or a lesson with no
\* counterpart list, with one class or with two
TeacherCells ==
    {NoEntry, [s |-> 1, info |-> NoneInfo], [s |-> 1, info |-> CourseInfo("e", <<"101">>)],
     [s |-> 1, info |-> CourseInfoNoCounterpart("m")]} \cup
    {[s |-> 1, info |-> CourseInfo("m", cp)] : cp \in {<<"101">>, <<"102">>, <<"101", "102">>}}

Logs ==
    {[x \in LogTeachers \cup LogClasses |-> IF x \in LogClasses THEN cc[x] ELSE tc[x]] :
        cc \in [LogClasses -> ClassCells], tc \in [LogTeachers -> TeacherCells]}

\* log_dict.get((source, streak_time)): None for a missing key and for a
\* free period alike
LogGet(log, source) ==
    IF source \in DOMAIN log /\ log[source] # NoEntry THEN log[source].info ELSE NoneInfo

\* source.isdigit()
IsDigit(source) == source \in LogClasses

\* a node of the builder: teachers and classes are the key sets of its dicts
BuiltNode(s, free, subject, teachers, classes) ==
    [w |-> LogWeekday, p |-> LogPeriod, s |-> s, free |-> free, subject |-> subject,
     teachers |-> teachers, classes |-> classes]

\* the body of the loop over log_dict.items() for a class source: the set
\* holding the node it adds, or the empty set where it continues
node_of_class_entry(log, class_code) ==
    LET e == log[class_code]
        counter_parts == e.info.counterpart
        teacher_name == counter_parts[1]
        counter_log == LogGet(log, teacher_name)
    IN  IF e.info = NoneInfo
        THEN {BuiltNode(e.s, TRUE, "", {}, {class_code})}
        ELSE IF e.info.counterpart_none \/ counter_parts = <<>> THEN {}
        ELSE IF Len(counter_parts) # 1 THEN {}
        ELSE IF counter_log = NoneInfo THEN {}
        ELSE IF counter_log.counterpart_none THEN {}
        ELSE IF Len(counter_log.counterpart) # 1 THEN {}
        ELSE IF counter_log.counterpart[1] # class_code THEN {}
        ELSE IF counter_log.subject # e.info.subject THEN {}
        ELSE {BuiltNode(e.s, FALSE, e.info.subject, {teacher_name}, {class_code})}

\* final_course_nodes_set after the first loop
built_nodes(log) ==
    UNION {node_of_class_entry(log, source) :
              source \in {x \in DOMAIN log : log[x] # NoEntry /\ IsDigit(x)}}

\* `if node.time not in courses: courses[node.time] = node` for each name
RECURSIVE register_in(_, _, _)
register_in(dict, names, node) ==
    IF names = {} THEN dict
    ELSE LET name == CHOOSE x \in names : TRUE
         IN  register_in([dict EXCEPT ![name] = CoursesPutIfAbsent(@, node)],
                         names \ {name}, node)

\* the second loop, over the set of nodes; the nodes of one log never
\* compete for a key, so the order of the set does not show
RECURSIVE update_courses(_, _)
update_courses(g, nodes) ==
    IF nodes = {} THEN g
    ELSE LET node == CHOOSE n \in nodes : TRUE
         IN  update_courses([t |-> register_in(g.t, node.teachers, node),
                             c |-> register_in(g.c, node.classes, node)],
                            nodes \ {node})

\* TeacherNodeDict.fetch() / ClassNodeDict.fetch() with an empty module
\* cache: one node with no courses for every name of the index
FreshNodeDicts == EmptyGraph(LogTeachers, LogClasses)

InitBuild ==
    /\ teacher_nodes = FreshNodeDicts.t
    /\ class_nodes = FreshNodeDicts.c
    /\ final_course_nodes_set = {}
    /\ ParseIdle /\ CacheIdle /\ PreloadIdle /\ FnIdle
    /\ pc = "idle"
    /\ op = "none"
    /\ req = NoReq
    /\ course_node = NoneNode
    /\ max_depth = 0
    /\ paths = <<>>
    /\ error = ""

\* what the first loop of the builder can leave in final_course_nodes_set
BuiltSets == {built_nodes(log) : log \in Logs}

\* NodeDicts.fetch(log_dict): the node dicts come from the module caches
\* teacher_node_cache / class_node_cache (TeacherNodeDict.fetch() is called
\* without refresh), then the second loop of the builder runs on them
RunBuild(nodes, name) ==
    LET g == update_courses([t |-> teacher_nodes, c |-> class_nodes], nodes)
    IN  /\ teacher_nodes' = g.t
        /\ class_nodes' = g.c
        /\ final_course_nodes_set' = nodes
        /\ op' = name
        /\ pc' = "built"
        /\ UNCHANGED <<req, course_node, max_depth, paths, error,
                        parse_vars, fn_vars, cache_vars, preload_vars>>

\* the first build of the process: the module caches are empty
NodeDictsFetch ==
    /\ pc = "idle"
    /\ \E nodes \in BuiltSets : RunBuild(nodes, "build")

\* a later call with refresh=True, after the streak log was fetched anew;
\* a later call without refresh builds the same nodes again and changes
\* nothing
NodeDictsFetchRefresh ==
    /\ pc = "built"
    /\ \E nodes \in BuiltSets : RunBuild(nodes, "refresh")

NextBuild == NodeDictsFetch \/ NodeDictsFetchRefresh

SpecBuild == InitBuild /\ [][NextBuild]_vars

\* build_course_node_from_log_dict as a function of the log: the log the
\* call is given, then the first loop applied to it
InitBuildLog ==
    /\ fn_call \in Logs
    /\ fn_result = <<>>
    /\ teacher_nodes = FreshNodeDicts.t
    /\ class_nodes = FreshNodeDicts.c
    /\ final_course_nodes_set = {}
    /\ ParseIdle /\ CacheIdle /\ PreloadIdle
    /\ pc = "idle"
    /\ op = "none"
    /\ req = NoReq
    /\ course_node = NoneNode
    /\ max_depth = 0
    /\ paths = <<>>
    /\ error = ""

CallBuildNodes ==
    /\ op = "none"
    /\ fn_result' = built_nodes(fn_call)
    /\ op' = "build_course_node_from_log_dict"
    /\ UNCHANGED <<fn_call, teacher_nodes, class_nodes, pc, req, course_node, max_depth, paths,
                    error, final_course_nodes_set, parse_vars, cache_vars, preload_vars>>

NextBuildLog == CallBuildNodes

SpecBuildLog == InitBuildLog /\ [][NextBuildLog]_vars

----------------------------------------------------------------------------
(* The streak log, timetable_slot_log/crawler.py *)

MaxRowLen == 3      \* most periods in a weekday row
DayCounts == {1, 2}  \* how many weekday rows a timetable has

\* CourseInfo values of a row: None or one of two lessons
RowCourses == {"None", "A", "B"}

DayRows == UNION {[1..n -> RowCourses] : n \in 0..MaxRowLen}

Tables == UNION {[1..d -> DayRows] : d \in DayCounts}

TimetableSlotLog(weekday, period, streak, log) ==
    [weekday |-> weekday, period |-> period, streak |-> streak, log |-> log]

\* the loop `for period_index, course in enumerate(day)` from position i
\* (1-based) on, followed by the entry for the last group of the day
RECURSIVE parse_day(_, _, _, _, _, _, _)
parse_day(day, weekday, i, prev_course, streak, start_period, result) ==
    IF i > Len(day)
    THEN Append(result, TimetableSlotLog(weekday, start_period + 1, streak, prev_course))
    ELSE IF i = 1
         THEN parse_day(day, weekday, i + 1, day[i], streak, start_period, result)
    ELSE IF day[i] = prev_course
         THEN parse_day(day, weekday, i + 1, day[i], streak + 1, start_period, result)
    ELSE parse_day(day, weekday, i + 1, day[i], 1, i - 1,
                   Append(result, TimetableSlotLog(weekday, start_period + 1, streak, prev_course)))

\* TimetableSlotLogCrawler.parse for one timetable
RECURSIVE parse(_, _, _)
parse(table, day_index, result) ==
    IF day_index > Len(table) THEN result
    ELSE parse(table, day_index + 1,
               parse_day(table[day_index], day_index, 1, "None", 1, 0, result))

SchedIdle ==
    /\ teacher_nodes = FreshNodeDicts.t
    /\ class_nodes = FreshNodeDicts.c
    /\ final_course_nodes_set = {}
    /\ pc = "idle"
    /\ op = "none"
    /\ req = NoReq
    /\ course_node = NoneNode
    /\ max_depth = 0
    /\ paths = <<>>
    /\ error = ""

InitParse ==
    /\ timetable \in Tables
    /\ slot_log = <<>>
    /\ SchedIdle /\ CacheIdle /\ PreloadIdle /\ FnIdle

Parse ==
    /\ pc = "idle"
    /\ slot_log' = parse(timetable, 1, <<>>)
    /\ pc' = "parsed"
    /\ UNCHANGED <<teacher_nodes, class_nodes, op, req, course_node, max_depth, paths, error,
                    final_course_nodes_set, timetable, fn_vars, cache_vars, preload_vars>>

NextParse == Parse

SpecParse == InitParse /\ [][NextParse]_vars

----------------------------------------------------------------------------
(* The three-tier timetable cache, timetable/cache.py.  A cached timetable *)
(* is one of Values; the memory tier maps an id to a value or None, the    *)
(* file tier maps an id to the content of its file.                        *)

Keys == {"k1", "k2"}
UnknownKey == "unknown"
Values == {"v1", "v2", "v3"}
None == "None"
FileAbsent == "absent"
\* a file that is not a valid payload: text that is not JSON (json.load
\* raises JSONDecodeError), bytes cut inside a multi-byte character (reading
\* raises UnicodeDecodeError), JSON of another shape (validation raises)
FileMalformed == "malformed"
FileUndecodable == "undecodable"
FileInvalid == "invalid"
CorruptFiles == {FileMalformed, FileUndecodable, FileInvalid}
FileContents == Values \cup {FileAbsent} \cup CorruptFiles

\* _memory_cache = {}
EmptyMemory == [id \in Keys |-> None]

\* fetch_from_memory(id)
fetch_from_memory(mem, id) == mem[id]

\* fetch_from_file(target, id): a missing file gives None, and so does every
\* exception raised while the file is read or validated
fetch_from_file(files, id) ==
    IF files[id] = FileAbsent THEN None
    ELSE IF files[id] \in CorruptFiles THEN None
    ELSE files[id]

\* save_to_file(data, target, id): [files |-> the files afterwards,
\* err |-> "" or the exception raised]; writable says whether open(path, "w")
\* and the write succeed
save_to_file(files, id, data, writable) ==
    IF writable THEN [files |-> [files EXCEPT ![id] = data], err |-> ""]
    ELSE [files |-> files, err |-> "FetchError"]

\* save_to_memory publishing the object before its construction is finished
save_to_memory_unfinished(mem, id, data) == [mem EXCEPT ![id] = [data EXCEPT !.complete = FALSE]]

\* save_to_memory(data, id)
save_to_memory(mem, id, data) == [mem EXCEPT ![id] = data]

SourceAttempts == 3

\* what one call of crawler.fetch gives: a timetable or an exception
CrawlerOutcomes == Values \cup {"error"}

\* the outcomes of the successive crawler.fetch calls of one
\* fetch_from_source: a call follows failed ones only, and a failed call is
\* the last one only when it is the third
SourceRuns ==
    {run \in UNION {[1..n -> CrawlerOutcomes] : n \in 1..SourceAttempts} :
        /\ \A i \in 1..(Len(run) - 1) : run[i] = "error"
        /\ run[Len(run)] = "error" => Len(run) = SourceAttempts}

\* fetch_from_source(target, id) under its retry decorator: every exception
\* of an attempt becomes FetchError, which is retried until the third
\* attempt; [value |-> the timetable or None, err |-> "" or "RetryError",
\* calls |-> how many times crawler.fetch ran]
RECURSIVE fetch_from_source(_, _)
fetch_from_source(run, attempt) ==
    IF run[attempt] # "error" THEN [value |-> run[attempt], err |-> "", calls |-> attempt]
    ELSE IF attempt >= SourceAttempts THEN [value |-> None, err |-> "RetryError", calls |-> attempt]
    ELSE fetch_from_source(run, attempt + 1)

\* what a fetch call leaves behind: the two tiers, the tiers it read in
\* order, what the source gave (None when it gave nothing), what the call
\* returned (None when it raised) and the exception raised
FetchResult(mem, files, reads, net, result, err, calls) ==
    [memory |-> mem, files |-> files, reads |-> reads, net |-> net, result |-> result,
     err |-> err, calls |-> calls]

\* the tail of fetch: fetch_from_source, save_to_file, save_to_memory
fetch_net(mem, files, id, reads, run, writable) ==
    LET net == fetch_from_source(run, 1)
        saved == save_to_file(files, id, net.value, writable)
    IN  IF net.err # "" THEN FetchResult(mem, files, reads \o <<"source">>, None, None, net.err, net.calls)
        ELSE IF saved.err # ""
        THEN FetchResult(mem, saved.files, reads \o <<"source">>, net.value, None, saved.err,
                         net.calls)
        ELSE FetchResult(save_to_memory(mem, id, net.value), saved.files,
                         reads \o <<"source">>, net.value, net.value, "", net.calls)

\* fetch that stores the source value in the file tier only
fetch_no_memory_save(mem, files, target, refresh, run, writable) ==
    IF target \notin Keys THEN FetchResult(mem, files, <<>>, None, None, "KeyError", 0)
    ELSE LET net == fetch_from_source(run, 1)
             saved == save_to_file(files, target, net.value, writable)
         IN  IF net.err # "" THEN FetchResult(mem, files, <<"source">>, None, None, net.err, net.calls)
             ELSE FetchResult(mem, saved.files, <<"source">>, net.value, net.value, saved.err,
                              net.calls)

\* TimeTableCache.fetch(target, refresh=refresh), the index already loaded
fetch(mem, files, target, refresh, run, writable) ==
    IF target \notin Keys THEN FetchResult(mem, files, <<>>, None, None, "KeyError", 0)
    ELSE LET id == target
             m == fetch_from_memory(mem, id)
             f == fetch_from_file(files, id)
         IN  IF ~refresh /\ m # None THEN FetchResult(mem, files, <<"memory">>, None, m, "", 0)
             ELSE IF ~refresh /\ f # None
             THEN FetchResult(save_to_memory(mem, id, f), files, <<"memory", "file">>, None, f, "",
                              0)
             ELSE fetch_net(mem, files, id,
                            IF refresh THEN <<>> ELSE <<"memory", "file">>, run, writable)

NoCall == [target |-> "", refresh |-> FALSE, reads |-> <<>>, net |-> None, result |-> None,
           err |-> "", calls |-> 0]

InitCache ==
    /\ memory_cache = EmptyMemory
    /\ file_cache \in [Keys -> FileContents]
    /\ cache_call = NoCall
    /\ SchedIdle /\ ParseIdle /\ PreloadIdle /\ FnIdle

\* await cache.fetch(target, refresh=refresh)
Fetch ==
    \E target \in Keys \cup {UnknownKey}, refresh \in BOOLEAN, run \in SourceRuns,
       writable \in BOOLEAN :
        LET r == fetch(memory_cache, file_cache, target, refresh, run, writable)
        IN  /\ memory_cache' = r.memory
            /\ file_cache' = r.files
            /\ cache_call' = [target |-> target, refresh |-> refresh, reads |-> r.reads,
                              net |-> r.net, result |-> r.result, err |-> r.err, calls |-> r.calls]
            /\ UNCHANGED <<sched_vars, parse_vars, fn_vars, preload_vars>>

\* the process starts again: the module-level _memory_cache is empty, the
\* files stay
Restart ==
    /\ memory_cache # EmptyMemory
    /\ memory_cache' = EmptyMemory
    /\ cache_call' = NoCall
    /\ UNCHANGED <<file_cache, sched_vars, parse_vars, fn_vars, preload_vars>>

NextCache == Fetch \/ Restart

SpecCache == InitCache /\ [][NextCache]_vars

----------------------------------------------------------------------------
(* The streak-log cache, timetable_slot_log/cache.py: one memory slot and  *)
(* one file, cache/timetable_slot_log.json.                                *)

SlotLogKeys == {"timetable_slot_log"}

\* TimetableSlotLogCache.fetch_from_file(): [value |-> what it returns,
\* err |-> "" or the exception it lets through]; of the exceptions of
\* reading and validating only JSONDecodeError and FileNotFoundError are
\* caught
slot_log_fetch_from_file(files, id) ==
    IF files[id] = FileAbsent THEN [value |-> None, err |-> ""]
    ELSE IF files[id] = FileMalformed THEN [value |-> None, err |-> ""]
    ELSE IF files[id] = FileUndecodable THEN [value |-> None, err |-> "UnicodeDecodeError"]
    ELSE IF files[id] = FileInvalid THEN [value |-> None, err |-> "ValidationError"]
    ELSE [value |-> files[id], err |-> ""]

\* the tail of fetch: fetch_from_source, save_to_memory, save_to_file; an
\* exception of the crawler or of the write leaves fetch as it is
slot_log_fetch_net(mem, files, id, reads, source, writable) ==
    IF source = "error"
    THEN FetchResult(mem, files, reads \o <<"source">>, None, None, "FetchError", 1)
    ELSE IF ~writable
    THEN FetchResult(save_to_memory(mem, id, source), files, reads \o <<"source">>, source,
                     None, "OSError", 1)
    ELSE FetchResult(save_to_memory(mem, id, source), [files EXCEPT ![id] = source],
                     reads \o <<"source">>, source, source, "", 1)

\* TimetableSlotLogCache.fetch(refresh)
slot_log_fetch(mem, files, id, refresh, source, writable) ==
    LET m == mem[id]
        f == slot_log_fetch_from_file(files, id)
    IN  IF ~refresh /\ m # None THEN FetchResult(mem, files, <<"memory">>, None, m, "", 0)
        ELSE IF ~refresh /\ f.err # ""
        THEN FetchResult(mem, files, <<"memory", "file">>, None, None, f.err, 0)
        ELSE IF ~refresh /\ f.value # None
        THEN FetchResult(save_to_memory(mem, id, f.value), files, <<"memory", "file">>,
                         None, f.value, "", 0)
        ELSE slot_log_fetch_net(mem, files, id,
                                IF refresh THEN <<>> ELSE <<"memory", "file">>, source, writable)

InitSlotLogCache ==
    /\ memory_cache = [id \in SlotLogKeys |-> None]
    /\ file_cache \in [SlotLogKeys -> FileContents]
    /\ cache_call = NoCall
    /\ SchedIdle /\ ParseIdle /\ PreloadIdle /\ FnIdle

\* await TimetableSlotLogCache().fetch(refresh)
SlotLogFetch ==
    \E id \in SlotLogKeys, refresh \in BOOLEAN, source \in CrawlerOutcomes,
       writable \in BOOLEAN :
        LET r == slot_log_fetch(memory_cache, file_cache, id, refresh, source, writable)
        IN  /\ memory_cache' = r.memory
            /\ file_cache' = r.files
            /\ cache_call' = [target |-> id, refresh |-> refresh, reads |-> r.reads,
                              net |-> r.net, result |-> r.result, err |-> r.err, calls |-> r.calls]
            /\ UNCHANGED <<sched_vars, parse_vars, fn_vars, preload_vars>>

\* the process starts again with _memory_cache = None
SlotLogRestart ==
    /\ memory_cache # [id \in SlotLogKeys |-> None]
    /\ memory_cache' = [id \in SlotLogKeys |-> None]
    /\ cache_call' = NoCall
    /\ UNCHANGED <<file_cache, sched_vars, parse_vars, fn_vars, preload_vars>>

\* the file is left cut short or overwritten by something else
SlotLogFileDamaged ==
    /\ \E content \in CorruptFiles :
        /\ file_cache' = [id \in SlotLogKeys |-> content]
        /\ file_cache' # file_cache
    /\ cache_call' = NoCall
    /\ UNCHANGED <<memory_cache, sched_vars, parse_vars, fn_vars, preload_vars>>

NextSlotLogCache == SlotLogFetch \/ SlotLogRestart \/ SlotLogFileDamaged

SpecSlotLogCache == InitSlotLogCache /\ [][NextSlotLogCache]_vars

----------------------------------------------------------------------------
(* preload_all, timetable/cache.py: the index, then one process(target)    *)
(* task per target under a semaphore, each fetch retried, the whole        *)
(* function retried.                                                       *)

\* the requests of a target are counted up to this many
MaxRequests == 4

RawAttempts == 3
InnerAttempts == 3
OuterAttempts == 2

\* the max_concurrent arguments tried
ConcurrencyLimits == {1, 2}

\* the timetable the upstream serves during a preload
PreloadValues == {"v1"}

\* what one HTTP request of fetch_raw ends in: the page, a bad status
\* (ClientResponseError) or a connection error / timeout
RequestOutcomes == PreloadValues \cup {"http_error", "client_error"}

\* the outcomes of the successive requests of one fetch_raw call: a request
\* follows connection errors only, and a connection error is the last one
\* only when it is the third
RawRuns ==
    {raw \in UNION {[1..n -> RequestOutcomes] : n \in 1..RawAttempts} :
        /\ \A i \in 1..(Len(raw) - 1) : raw[i] = "client_error"
        /\ raw[Len(raw)] = "client_error" => Len(raw) = RawAttempts}

\* TimetableCrawler.fetch_raw under its retry decorator: a bad status
\* becomes FetchError at once, a connection error or timeout is retried
\* until the third attempt; [value |-> the page or "error",
\* requests |-> how many requests were sent]
RECURSIVE fetch_raw(_, _)
fetch_raw(raw, attempt) ==
    IF raw[attempt] = "http_error" THEN [value |-> "error", requests |-> attempt]
    ELSE IF raw[attempt] # "client_error" THEN [value |-> raw[attempt], requests |-> attempt]
    ELSE IF attempt >= RawAttempts THEN [value |-> "error", requests |-> attempt]
    ELSE fetch_raw(raw, attempt + 1)

RECURSIVE SumRequests(_, _)
SumRequests(raws, i) ==
    IF i > Len(raws) THEN 0 ELSE fetch_raw(raws[i], 1).requests + SumRequests(raws, i + 1)

\* one fetch_from_source as the crawler.fetch calls it makes:
\* [run |-> the outcome of each call, requests |-> the requests sent in all]
SourceCalls ==
    {[run |-> [i \in 1..Len(raws) |-> fetch_raw(raws[i], 1).value],
      requests |-> SumRequests(raws, 1)] :
        raws \in {rs \in UNION {[1..n -> RawRuns] : n \in 1..SourceAttempts} :
                    [i \in 1..Len(rs) |-> fetch_raw(rs[i], 1).value] \in SourceRuns}}

NoRun == [only_missing |-> FALSE, max_concurrent |-> 0, attempt |-> 0, retry_cause |-> ""]
NoTask == [pc |-> "none", attempt |-> 0]

InitPreload ==
    /\ preload_pc = "idle"
    /\ preload_run = NoRun
    /\ tasks = [t \in Keys |-> NoTask]
    /\ semaphore = 0
    /\ requests = [t \in Keys |-> 0]
    /\ memory_cache \in [Keys -> {None} \cup PreloadValues]
    /\ file_cache = [t \in Keys |-> FileAbsent]
    /\ cache_call = NoCall
    /\ SchedIdle /\ ParseIdle /\ FnIdle

\* preload_all(only_missing, max_concurrent) is called
PreloadAll ==
    /\ preload_pc = "idle"
    /\ \E only_missing \in BOOLEAN, max_concurrent \in ConcurrencyLimits :
        preload_run' = [only_missing |-> only_missing, max_concurrent |-> max_concurrent,
                        attempt |-> 1, retry_cause |-> ""]
    /\ preload_pc' = "index"
    /\ UNCHANGED <<tasks, semaphore, requests, sched_vars, parse_vars, fn_vars, cache_vars>>

\* the FetchError of `except Exception` reaches the retry decorator of
\* preload_all: a second attempt, or RetryError after the second
outer_retry(cause) ==
    IF preload_run.attempt < OuterAttempts
    THEN /\ preload_pc' = "index"
         /\ preload_run' = [preload_run EXCEPT !.attempt = @ + 1, !.retry_cause = cause]
    ELSE /\ preload_pc' = "raised"
         /\ UNCHANGED preload_run

\* index = await core.fetch_index(refresh=True); `if not index.reverse_index`;
\* targets, cache, semaphore, and gather creating one task per target
FetchIndex ==
    /\ preload_pc = "index"
    /\ \E outcome \in {"ok", "empty", "error"} :
        IF outcome = "ok"
        THEN /\ preload_pc' = "gather"
             /\ tasks' = [t \in Keys |-> [pc |-> "start", attempt |-> 0]]
             /\ semaphore' = preload_run.max_concurrent
             /\ UNCHANGED preload_run
        ELSE /\ outer_retry("index")
             /\ UNCHANGED <<tasks, semaphore>>
    /\ UNCHANGED <<requests, sched_vars, parse_vars, fn_vars, cache_vars>>

\* process(target) up to its first wait on the semaphore: with only_missing
\* a target in memory is skipped, and for any other target
\* cache.fetch_from_file(target) is a call without its `id` argument, a
\* TypeError that leaves process
Process(t) ==
    /\ preload_pc = "gather"
    /\ tasks[t].pc = "start"
    /\ tasks' = [tasks EXCEPT ![t] =
                    IF preload_run.only_missing
                    THEN IF fetch_from_memory(memory_cache, t) # None
                         THEN [pc |-> "skipped", attempt |-> 0]
                         ELSE [pc |-> "crashed", attempt |-> 0]
                    ELSE [pc |-> "waiting", attempt |-> 1]]
    /\ UNCHANGED <<preload_pc, preload_run, semaphore, requests, sched_vars, parse_vars, fn_vars,
                    cache_vars>>

\* entering the semaphore without waiting for a permit
Acquire_no_semaphore(t) ==
    /\ preload_pc = "gather"
    /\ tasks[t].pc = "waiting"
    /\ semaphore' = semaphore - 1
    /\ tasks' = [tasks EXCEPT ![t].pc = "fetching"]
    /\ UNCHANGED <<preload_pc, preload_run, requests, sched_vars, parse_vars, fn_vars, cache_vars>>

\* `async with semaphore:` is entered
Acquire(t) ==
    /\ preload_pc = "gather"
    /\ tasks[t].pc = "waiting"
    /\ semaphore > 0
    /\ semaphore' = semaphore - 1
    /\ tasks' = [tasks EXCEPT ![t].pc = "fetching"]
    /\ UNCHANGED <<preload_pc, preload_run, requests, sched_vars, parse_vars, fn_vars, cache_vars>>

\* a fetch that lets the exhausted retries leave process
after_fetch_raising(task, err) ==
    IF err = "" THEN [task EXCEPT !.pc = "done"]
    ELSE IF task.attempt < InnerAttempts THEN [pc |-> "waiting", attempt |-> task.attempt + 1]
    ELSE [task EXCEPT !.pc = "crashed"]

\* the task after cache.fetch ended with err: done, or FetchError and the
\* next attempt of _fetch_with_retry, or after the third the RetryError
\* that process logs
after_fetch(task, err) ==
    IF err = "" THEN [task EXCEPT !.pc = "done"]
    ELSE IF task.attempt < InnerAttempts THEN [pc |-> "waiting", attempt |-> task.attempt + 1]
    ELSE [task EXCEPT !.pc = "failed"]

\* await cache.fetch(target, refresh=True) inside the semaphore, and the
\* semaphore left
CacheFetch(t) ==
    /\ preload_pc = "gather"
    /\ tasks[t].pc = "fetching"
    /\ \E sc \in SourceCalls, writable \in BOOLEAN :
        LET r == fetch(memory_cache, file_cache, t, TRUE, sc.run, writable)
        IN  /\ memory_cache' = r.memory
            /\ file_cache' = r.files
            /\ requests' = [requests EXCEPT ![t] =
                                IF @ + sc.requests < MaxRequests THEN @ + sc.requests
                                ELSE MaxRequests]
            /\ tasks' = [tasks EXCEPT ![t] = after_fetch(tasks[t], r.err)]
    /\ semaphore' = semaphore + 1
    /\ UNCHANGED <<preload_pc, preload_run, cache_call, sched_vars, parse_vars, fn_vars>>

\* gather returns: every task returned
GatherReturns ==
    /\ preload_pc = "gather"
    /\ \A t \in Keys : tasks[t].pc \in {"done", "failed", "skipped"}
    /\ preload_pc' = "done"
    /\ UNCHANGED <<preload_run, tasks, semaphore, requests, sched_vars, parse_vars, fn_vars,
                    cache_vars>>

\* gather raises the exception of a task into `except Exception`; the tasks
\* of this attempt are left behind
GatherRaises ==
    /\ preload_pc = "gather"
    /\ \E t \in Keys : tasks[t].pc = "crashed"
    /\ outer_retry("targets")
    /\ UNCHANGED <<tasks, semaphore, requests, sched_vars, parse_vars, fn_vars, cache_vars>>

NextPreload ==
    \/ PreloadAll
    \/ FetchIndex
    \/ \E t \in Keys : Process(t)
    \/ \E t \in Keys : Acquire(t)
    \/ \E t \in Keys : CacheFetch(t)
    \/ GatherReturns
    \/ GatherRaises

SpecPreload == InitPreload /\ [][NextPreload]_vars

----------------------------------------------------------------------------
(* Concurrent fetches of the two caches on one event loop: a coroutine     *)
(* runs from one await to the next without interruption, and any other     *)
(* coroutine may run between two awaits.  A cached object is               *)
(* [value, complete]: complete is FALSE while the object is being built.   *)

MaxFetchers == 2

Fetchers == 1..MaxFetchers

\* the timetable ids and the one slot of the streak-log cache
ConcurrentIds == {"k1"} \cup SlotLogKeys
SourceValues == {"v1", "v2"}

CachedObject(value) == [value |-> value, complete |-> TRUE]
\* None, and the absence of a key
NoObject == [value |-> None, complete |-> TRUE]

NoFetcher == [pc |-> "idle", id |-> "", refresh |-> FALSE, data |-> NoObject, seen |-> NoObject]

InitConcurrent ==
    /\ memory_cache = [id \in ConcurrentIds |-> NoObject]
    /\ \E file \in {NoObject, CachedObject("v1")} : file_cache = [id \in ConcurrentIds |-> file]
    /\ cache_call = {}
    /\ tasks = [t \in Fetchers |-> NoFetcher]
    /\ preload_pc = "idle"
    /\ preload_run = <<>>
    /\ semaphore = 0
    /\ requests = <<>>
    /\ teacher_nodes = FreshNodeDicts.t
    /\ class_nodes = FreshNodeDicts.c
    /\ final_course_nodes_set = {}
    /\ ParseIdle /\ FnIdle
    /\ pc = "idle"
    /\ op = "none"
    /\ req = NoReq
    /\ course_node = NoneNode
    /\ max_depth = 0
    /\ paths = <<>>
    /\ error = ""

ConcurrentUnchanged ==
    UNCHANGED <<sched_vars, parse_vars, fn_vars, preload_pc, preload_run, semaphore, requests>>

\* fetch(target, refresh=...) / fetch(refresh=...) is called: a refresh goes
\* to the source at once
FetchCalled(t) ==
    /\ tasks[t].pc \in {"idle", "done"}
    /\ \E id \in ConcurrentIds, refresh \in BOOLEAN :
          tasks' = [tasks EXCEPT ![t] = [pc |-> IF refresh THEN "source" ELSE "memory",
                                         id |-> id, refresh |-> refresh,
                                         data |-> NoObject, seen |-> NoObject]]
    /\ UNCHANGED <<memory_cache, file_cache, cache_call>>
    /\ ConcurrentUnchanged

\* mem = await self.fetch_from_memory(...); if mem: return mem
AwaitFetchFromMemory(t) ==
    /\ tasks[t].pc = "memory"
    /\ LET mem == fetch_from_memory(memory_cache, tasks[t].id)
       IN  tasks' = [tasks EXCEPT ![t] = [@ EXCEPT !.seen = mem,
                                                   !.pc = IF mem # NoObject THEN "done" ELSE "file"]]
    /\ UNCHANGED <<memory_cache, file_cache, cache_call>>
    /\ ConcurrentUnchanged

\* file = await self.fetch_from_file(...): the object is built from the file
\* before the call returns
AwaitFetchFromFile(t) ==
    /\ tasks[t].pc = "file"
    /\ LET file == file_cache[tasks[t].id]
       IN  tasks' = [tasks EXCEPT ![t] = [@ EXCEPT !.data = file,
                                                   !.pc = IF file # NoObject THEN "save_from_file"
                                                          ELSE "source"]]
    /\ UNCHANGED <<memory_cache, file_cache, cache_call>>
    /\ ConcurrentUnchanged

\* await self.save_to_memory(data); the local object is dropped when fetch
\* returns
SaveMemory(t, next_pc) ==
    /\ memory_cache' = save_to_memory(memory_cache, tasks[t].id, tasks[t].data)
    /\ cache_call' = cache_call \cup {<<tasks[t].id, tasks[t].data>>}
    /\ tasks' = [tasks EXCEPT ![t] =
                    [@ EXCEPT !.pc = next_pc,
                              !.data = IF next_pc = "done" THEN NoObject ELSE tasks[t].data]]
    /\ UNCHANGED file_cache
    /\ ConcurrentUnchanged

AwaitSaveToMemoryFromFile(t) ==
    /\ tasks[t].pc = "save_from_file"
    /\ SaveMemory(t, "done")

\* net = await self.fetch_from_source(...): CachedTimeTable(...) and
\* _convert_to_dict(logs) build the object after the crawler has returned,
\* with no await in between; a failure leaves fetch
AwaitFetchFromSource(t) ==
    /\ tasks[t].pc = "source"
    /\ \/ \E v \in SourceValues :
             tasks' = [tasks EXCEPT ![t] =
                          [@ EXCEPT !.data = CachedObject(v),
                                    !.pc = IF tasks[t].id \in SlotLogKeys THEN "save_memory"
                                           ELSE "save_file"]]
       \/ tasks' = [tasks EXCEPT ![t] = [@ EXCEPT !.pc = "done"]]
    /\ UNCHANGED <<memory_cache, file_cache, cache_call>>
    /\ ConcurrentUnchanged

\* await self.save_to_file(...): the timetable cache writes the file before
\* the memory, the streak-log cache after it; a failed write leaves fetch
AwaitSaveToFile(t) ==
    /\ tasks[t].pc = "save_file"
    /\ \/ /\ file_cache' = [file_cache EXCEPT ![tasks[t].id] = tasks[t].data]
          /\ tasks' = [tasks EXCEPT ![t] =
                          IF tasks[t].id \in SlotLogKeys
                          THEN [@ EXCEPT !.pc = "done", !.data = NoObject]
                          ELSE [@ EXCEPT !.pc = "save_memory"]]
       \/ /\ tasks' = [tasks EXCEPT ![t] = [@ EXCEPT !.pc = "done", !.data = NoObject]]
          /\ UNCHANGED file_cache
    /\ UNCHANGED <<memory_cache, cache_call>>
    /\ ConcurrentUnchanged

AwaitSaveToMemory(t) ==
    /\ tasks[t].pc = "save_memory"
    /\ SaveMemory(t, IF tasks[t].id \in SlotLogKeys THEN "save_file" ELSE "done")

NextConcurrent ==
    \E t \in Fetchers :
        \/ FetchCalled(t)
        \/ AwaitFetchFromMemory(t)
        \/ AwaitFetchFromFile(t)
        \/ AwaitSaveToMemoryFromFile(t)
        \/ AwaitFetchFromSource(t)
        \/ AwaitSaveToFile(t)
        \/ AwaitSaveToMemory(t)

SpecConcurrent == InitConcurrent /\ [][NextConcurrent]_vars

----------------------------------------------------------------------------
(* The index crawler, index/crawler.py: fetch_raw under its retry          *)
(* decorator and _fetch_all_pages.  A page is named by the URL it was      *)
(* fetched at.                                                             *)

IndexAttempts == 3

DEFAULT_TEACHER_PAGE == "_TeachIndex.html"
DEFAULT_CLASS_PAGE == "_ClassIndex.html"

\* what one HTTP request ends in: the page, a bad status (raise_for_status
\* raises ClientResponseError), a connection error or a timeout
IndexRequestOutcomes == {"page", "http_error", "client_error", "timeout"}

\* what the server answers to the successive requests of one call
IndexRuns == [1..IndexAttempts -> IndexRequestOutcomes]

\* retry_if_exception_type((ClientError, ServerTimeoutError, TimeoutError)):
\* ClientResponseError is a ClientError
IsRetried(outcome) == outcome \in {"http_error", "client_error", "timeout"}

\* IndexCrawler.fetch_raw under @retry(stop_after_attempt(3)), no reraise:
\* [value |-> "page" or "RetryError", requests |-> the requests sent]
RECURSIVE index_fetch_raw(_, _)
index_fetch_raw(run, attempt) ==
    IF ~IsRetried(run[attempt]) THEN [value |-> run[attempt], requests |-> attempt]
    ELSE IF attempt >= IndexAttempts THEN [value |-> "RetryError", requests |-> attempt]
    ELSE index_fetch_raw(run, attempt + 1)

\* what a fetch_raw call gives its caller
IndexFetchValues == {index_fetch_raw(run, 1).value : run \in IndexRuns}

\* the constructor arguments teacher_page / class_page
TeacherPageArgs == {None, "teacher.html"}
ClassPageArgs == {None, "class.html"}

\* the hrefs the root page can hold
RootTeacherUrls == {DEFAULT_TEACHER_PAGE, "_TeachIndex2.html"}
RootClassUrls == {DEFAULT_CLASS_PAGE, "_ClassIndex2.html"}

\* __init__: self.teacher_page = teacher_page or self.DEFAULT_TEACHER_PAGE
page_or_default(arg, default) == IF arg = None \/ arg = "" THEN default ELSE arg

\* the soup of a request: the URL of the page, or the exception gather returns
Soup(value, url) == IF value = "page" THEN url ELSE value

IsException(soup) == soup \in {"RetryError"}

\* one directory page of _fetch_all_pages after the root was parsed:
\* [err, soup, refetched, page |-> self.teacher_page afterwards]
directory_page(page, default, speculative, root_url, again) ==
    IF page = "" \/ IsException(speculative)
    THEN IF root_url # default \/ IsException(speculative)
         THEN [err |-> IF again = "page" THEN "" ELSE again,
               soup |-> Soup(again, root_url), refetched |-> TRUE, page |-> root_url]
         ELSE [err |-> "", soup |-> speculative, refetched |-> FALSE, page |-> root_url]
    ELSE [err |-> "", soup |-> speculative, refetched |-> FALSE, page |-> page]

NoDirectory == [err |-> "", soup |-> "", refetched |-> FALSE, page |-> ""]

\* _fetch_all_pages on a new crawler, a holding the constructor arguments,
\* what the requests give and the hrefs of the root page: the three requests
\* gathered with return_exceptions=True, _parse_root on what the root request
\* gave, then the teacher page and the class page
fetch_all_pages(a) ==
    LET teacher_arg == a.teacher_page
        class_arg == a.class_page
        root == a.root
        root_teacher_url == a.root_teacher_url
        root_class_url == a.root_class_url
        teacher_first == a.teacher_first
        class_first == a.class_first
        teacher_again == a.teacher_again
        class_again == a.class_again
        teacher_page == page_or_default(teacher_arg, DEFAULT_TEACHER_PAGE)
        class_page == page_or_default(class_arg, DEFAULT_CLASS_PAGE)
        teacher_url == IF teacher_page = "" THEN DEFAULT_TEACHER_PAGE ELSE teacher_page
        class_url == IF class_page = "" THEN DEFAULT_CLASS_PAGE ELSE class_page
        teacher_soup == Soup(teacher_first, teacher_url)
        class_soup == Soup(class_first, class_url)
        t == directory_page(teacher_page, DEFAULT_TEACHER_PAGE, teacher_soup,
                            root_teacher_url, teacher_again)
        c == directory_page(class_page, DEFAULT_CLASS_PAGE, class_soup,
                            root_class_url, class_again)
    IN  IF root # "page"
        THEN [err |-> "AttributeError", teacher |-> NoDirectory, class |-> NoDirectory]
        ELSE IF t.err # ""
        THEN [err |-> t.err, teacher |-> t, class |-> NoDirectory]
        ELSE [err |-> c.err, teacher |-> t, class |-> c]

InitIndexCrawler == InitBuild

CallIndexFetchRaw ==
    /\ \E run \in IndexRuns :
          /\ fn_call' = [run |-> run]
          /\ fn_result' = index_fetch_raw(run, 1)
    /\ op' = "index_fetch_raw"
    /\ UNCHANGED <<teacher_nodes, class_nodes, pc, req, course_node, max_depth, paths,
                    error, final_course_nodes_set, parse_vars, cache_vars, preload_vars>>

CallFetchAllPages ==
    /\ \E teacher_arg \in TeacherPageArgs, class_arg \in ClassPageArgs,
          root \in IndexFetchValues,
          root_teacher_url \in RootTeacherUrls, root_class_url \in RootClassUrls,
          teacher_first \in IndexFetchValues, class_first \in IndexFetchValues,
          teacher_again \in IndexFetchValues, class_again \in IndexFetchValues :
          /\ fn_call' = [teacher_page |-> teacher_arg, class_page |-> class_arg,
                         root |-> root, root_teacher_url |-> root_teacher_url,
                         root_class_url |-> root_class_url,
                         teacher_first |-> teacher_first, class_first |-> class_first]
          /\ fn_result' = fetch_all_pages(
                 [teacher_page |-> teacher_arg, class_page |-> class_arg, root |-> root,
                  root_teacher_url |-> root_teacher_url, root_class_url |-> root_class_url,
                  teacher_first |-> teacher_first, class_first |-> class_first,
                  teacher_again |-> teacher_again, class_again |-> class_again])
    /\ op' = "_fetch_all_pages"
    /\ UNCHANGED <<teacher_nodes, class_nodes, pc, req, course_node, max_depth, paths,
                    error, final_course_nodes_set, parse_vars, cache_vars, preload_vars>>

NextIndexCrawler == CallIndexFetchRaw \/ CallFetchAllPages

SpecIndexCrawler == InitIndexCrawler /\ [][NextIndexCrawler]_vars

----------------------------------------------------------------------------
(* The index parser, index/crawler.py: _parse_page on the rows of a        *)
(* directory page, then the derived maps.  A dict is kept in insertion     *)
(* order as a sequence where the code iterates over it, and as a function  *)
(* where it only looks keys up.                                            *)

MaxTeacherRows == 3
MaxClassRows == 2

TeacherUrls == {"TA01.html", "TA01.HTML", "TA02.html"}
ClassUrls == {"C101.html", "C102.html"}
TargetNames == {"x", "y"}
TeacherCategories == {"c1", "c2"}
ClassCategories == {"k1"}

\* TargetInfo.id: url.removesuffix(".html").removesuffix(".HTML")
IdOfUrl(url) ==
    CASE url \in {"TA01.html", "TA01.HTML"} -> "TA01"
      [] url = "TA02.html" -> "TA02"
      [] url = "C101.html" -> "C101"
      [] url = "C102.html" -> "C102"

TargetInfo(target, category, url) ==
    [target |-> target, category |-> category, url |-> url, id |-> IdOfUrl(url)]

\* a <tr> of a directory page: a category header, or a row with one link
\* whose cleaned text is target
HeaderRow(category) == [header |-> TRUE, category |-> category, target |-> "", url |-> ""]
LinkRow(target, url) == [header |-> FALSE, category |-> "", target |-> target, url |-> url]

TeacherRows ==
    {HeaderRow(c) : c \in TeacherCategories} \cup
    {LinkRow(t, u) : t \in TargetNames, u \in TeacherUrls}

ClassRows == {HeaderRow(c) : c \in ClassCategories} \cup
             {LinkRow("x", "C101.html"), LinkRow("y", "C102.html")}

SeqsUpTo(S, n) == UNION {[1..k -> S] : k \in 0..n}

TeacherPages == SeqsUpTo(TeacherRows, MaxTeacherRows)
ClassPages == SeqsUpTo(ClassRows, MaxClassRows)

\* result[current_category] = {}: a new key goes last, a known key keeps
\* its place and loses its items
reset_category(cats, category) ==
    IF \E i \in 1..Len(cats) : cats[i].category = category
    THEN [i \in 1..Len(cats) |->
             IF cats[i].category = category THEN [cats[i] EXCEPT !.items = <<>>] ELSE cats[i]]
    ELSE Append(cats, [category |-> category, items |-> <<>>])

\* items[info.id] = info
put_item(items, info) ==
    IF \E i \in 1..Len(items) : items[i].id = info.id
    THEN [i \in 1..Len(items) |-> IF items[i].id = info.id THEN info ELSE items[i]]
    ELSE Append(items, info)

\* result[current_category][info.id] = info
put_info(cats, info) ==
    [i \in 1..Len(cats) |->
        IF cats[i].category = info.category
        THEN [cats[i] EXCEPT !.items = put_item(@, info)] ELSE cats[i]]

\* the loop of _parse_page over the rows, from row i on
RECURSIVE parse_page(_, _, _, _)
parse_page(rows, i, cats, current_category) ==
    IF i > Len(rows) THEN cats
    ELSE IF rows[i].header
    THEN parse_page(rows, i + 1, reset_category(cats, rows[i].category), rows[i].category)
    ELSE IF current_category = ""
    THEN parse_page(rows, i + 1, cats, current_category)
    ELSE parse_page(rows, i + 1,
                    put_info(cats, TargetInfo(rows[i].target, current_category, rows[i].url)),
                    current_category)

\* for category in data: for info in data[category].values()
RECURSIVE infos_of(_, _)
infos_of(cats, i) ==
    IF i > Len(cats) THEN <<>> ELSE cats[i].items \o infos_of(cats, i + 1)

DictSet(d, k, v) == [x \in DOMAIN d \cup {k} |-> IF x = k THEN v ELSE d[x]]
DictDel(d, k) == [x \in DOMAIN d \ {k} |-> d[x]]

\* _derive_id_to_info: result[info.id] = info for the infos from i on
RECURSIVE derive_id_to_info(_, _, _)
derive_id_to_info(infos, i, result) ==
    IF i > Len(infos) THEN result
    ELSE derive_id_to_info(infos, i + 1, DictSet(result, infos[i].id, infos[i]))

\* process_info without the del of the unique entry
process_info_keep_unique(maps, info) ==
    IF info.target \in DOMAIN maps.conflicting
    THEN [maps EXCEPT !.conflicting = DictSet(@, info.target, Append(@[info.target], info.id))]
    ELSE IF info.target \in DOMAIN maps.unique
    THEN [unique |-> maps.unique,
          conflicting |-> DictSet(maps.conflicting, info.target,
                                  <<maps.unique[info.target].id, info.id>>)]
    ELSE [maps EXCEPT !.unique = DictSet(@, info.target, info)]

\* process_info of _derive_name_mappings, on
\* [unique |-> target_to_unique_info, conflicting |-> target_to_conflicting_ids]
process_info(maps, info) ==
    IF info.target \in DOMAIN maps.conflicting
    THEN [maps EXCEPT !.conflicting = DictSet(@, info.target, Append(@[info.target], info.id))]
    ELSE IF info.target \in DOMAIN maps.unique
    THEN [unique |-> DictDel(maps.unique, info.target),
          conflicting |-> DictSet(maps.conflicting, info.target,
                                  <<maps.unique[info.target].id, info.id>>)]
    ELSE [maps EXCEPT !.unique = DictSet(@, info.target, info)]

RECURSIVE derive_name_mappings(_, _, _)
derive_name_mappings(infos, i, maps) ==
    IF i > Len(infos) THEN maps
    ELSE derive_name_mappings(infos, i + 1, process_info(maps, infos[i]))

\* IndexCrawler.parse: the detailed index of the two pages, then the
\* derived maps
index_parse(teacher_raw, class_raw) ==
    LET teacher_detailed == parse_page(teacher_raw, 1, <<>>, "")
        class_detailed == parse_page(class_raw, 1, <<>>, "")
        infos == infos_of(teacher_detailed, 1) \o infos_of(class_detailed, 1)
        maps == derive_name_mappings(infos, 1, [unique |-> <<>>, conflicting |-> <<>>])
    IN  [detailed |-> infos,
         id_to_info |-> derive_id_to_info(infos, 1, <<>>),
         target_to_unique_info |-> maps.unique,
         target_to_conflicting_ids |-> maps.conflicting]

\* the two pages parse is given
InitIndexParse ==
    /\ fn_call \in [teacher_raw : TeacherPages, class_raw : ClassPages]
    /\ fn_result = <<>>
    /\ teacher_nodes = FreshNodeDicts.t
    /\ class_nodes = FreshNodeDicts.c
    /\ final_course_nodes_set = {}
    /\ ParseIdle /\ CacheIdle /\ PreloadIdle
    /\ pc = "idle"
    /\ op = "none"
    /\ req = NoReq
    /\ course_node = NoneNode
    /\ max_depth = 0
    /\ paths = <<>>
    /\ error = ""

CallIndexParse ==
    /\ op = "none"
    /\ fn_result' = index_parse(fn_call.teacher_raw, fn_call.class_raw)
    /\ op' = "parse"
    /\ UNCHANGED <<fn_call, teacher_nodes, class_nodes, pc, req, course_node, max_depth, paths,
                    error, final_course_nodes_set, parse_vars, cache_vars, preload_vars>>

NextIndexParse == CallIndexParse

SpecIndexParse == InitIndexParse /\ [][NextIndexParse]_vars

----------------------------------------------------------------------------
(* The key identifier, index/identify_index_key.py.  A text is a sequence  *)
(* of tokens: a letter, a digit, "Han" for a CJK character, or the         *)
(* substring ".html" that the preprocessing removes.  None is the empty    *)
(* sequence where a text is expected: no result holds an empty string.     *)

MaxTextLen == 4

AsciiLetters == {"T", "C", "a"}
Digits == {"1", "2"}
HanChars == {"Han"}
Tokens == AsciiLetters \cup Digits \cup HanChars \cup {".html"}

\* the arguments class_code_len a caller can pass; 3 is the default
ClassCodeLens == {1, 3}

Texts == UNION {[1..n -> Tokens] : n \in 0..MaxTextLen}

\* len(text)
RECURSIVE TextLen(_)
TextLen(text) ==
    IF text = <<>> THEN 0
    ELSE (IF Head(text) = ".html" THEN 5 ELSE 1) + TextLen(Tail(text))

\* text.replace('.html', '')
IsNotHtml(token) == token # ".html"
remove_html(text) == SelectSeq(text, IsNotHtml)

\* regex.fullmatch(r'[S]+', text) and regex.fullmatch(r'[S]*', text)
AllIn(text, S) == \A i \in 1..Len(text) : text[i] \in S
FullMatchPlus(text, S) == text # <<>> /\ AllIn(text, S)

\* the length of the longest prefix of text made of characters of S
LeadLen(text, S) ==
    CHOOSE k \in 0..Len(text) :
        /\ \A i \in 1..k : text[i] \in S
        /\ k = Len(text) \/ text[k + 1] \notin S

Drop(text, n) == SubSeq(text, n + 1, Len(text))
Take(text, n) == SubSeq(text, 1, n)
Last(text, n) == SubSeq(text, Len(text) - n + 1, Len(text))

\* ''.join(regex.findall(r'[A-Za-z]+', target))
IsLetter(token) == token \in AsciiLetters
letters_of(target) == SelectSeq(target, IsLetter)

NoText == <<>>
IdentificationResult(role, match_case, target, ID) ==
    [role |-> role, match_case |-> match_case, target |-> target, ID |-> ID]
\* return None
NotIdentified == IdentificationResult("None", "None", NoText, NoText)
\* raise
Raised(exception) == IdentificationResult(exception, "None", NoText, NoText)

\* role == 'T': body against ^([A-Za-z]*)(\d*)([A-Za-z\p{Han}]*)$
identify_teacher(body) ==
    LET p == LeadLen(body, AsciiLetters)
        prefix == Take(body, p)
        d == LeadLen(Drop(body, p), Digits)
        suffix == Take(Drop(body, p), d)
        target == Drop(body, p + d)
    IN  IF ~AllIn(target, AsciiLetters \cup HanChars) THEN NotIdentified
        ELSE IF prefix # <<>> /\ suffix # <<>> /\ target # <<>>
        THEN IF FullMatchPlus(target, HanChars)
             THEN IdentificationResult("teacher", "T4", target, <<"T">> \o prefix \o suffix)
             ELSE NotIdentified
        ELSE IF prefix # <<>> /\ suffix # <<>>
        THEN IdentificationResult("teacher", "T5", NoText, <<"T">> \o prefix \o suffix)
        ELSE IF prefix = <<>> /\ suffix # <<>> /\ target = <<>>
        THEN IdentificationResult("teacher", "fallback", NoText, <<"T", "T">> \o suffix)
        ELSE IF prefix # <<>> /\ target = <<>>
        THEN IdentificationResult("teacher", "T6a", prefix, NoText)
        ELSE IF prefix = <<>> /\ suffix = <<>> /\ target # <<>>
        THEN IF FullMatchPlus(target, HanChars)
             THEN IdentificationResult("teacher", "T6b", target, NoText)
             ELSE IF letters_of(target) # <<>> /\ ~AllIn(target, AsciiLetters)
             THEN IdentificationResult("teacher", "T6d", letters_of(target), NoText)
             ELSE NotIdentified
        ELSE IF prefix # <<>> /\ suffix = <<>> /\ target # <<>>
        THEN IF FullMatchPlus(target, HanChars)
             THEN IdentificationResult("teacher", "T6c", prefix, NoText)
             ELSE NotIdentified
        ELSE NotIdentified

\* role == 'C'
identify_class(body, class_code_len) ==
    IF ~FullMatchPlus(body, Digits) THEN NotIdentified
    ELSE IF Len(body) = class_code_len * 2
    THEN IdentificationResult("class", "C5", Last(body, class_code_len), <<"C">> \o body)
    ELSE IF Len(body) = class_code_len
    THEN IdentificationResult("class", "C6", body, NoText)
    ELSE IF Len(body) > class_code_len * 2
    THEN IdentificationResult("class", "C4", Last(body, class_code_len),
                              <<"C">> \o Take(body, Len(body) - class_code_len))
    ELSE NotIdentified

\* no T / C prefix
identify_bare(text, class_code_len) ==
    LET p == LeadLen(text, AsciiLetters)
        d == LeadLen(Drop(text, p), Digits)
        rest == Drop(text, p + d)
    IN  IF p > 0 /\ d > 0 /\ FullMatchPlus(rest, HanChars)
        THEN IdentificationResult("teacher", "T2", rest, <<"T">> \o Take(text, p + d))
        ELSE IF p > 0 /\ d > 0 /\ rest = <<>>
        THEN IdentificationResult("teacher", "T3", NoText, <<"T">> \o text)
        ELSE IF ~FullMatchPlus(text, Digits) THEN NotIdentified
        ELSE IF Len(text) = class_code_len
        THEN IdentificationResult("class", "C1", text, NoText)
        ELSE IF Len(text) = class_code_len * 2
        THEN IdentificationResult("class", "C3", Last(text, class_code_len), <<"C">> \o text)
        ELSE IF Len(text) > class_code_len * 2
        THEN IdentificationResult("class", "C2", Last(text, class_code_len),
                                  <<"C">> \o Take(text, Len(text) - class_code_len))
        ELSE NotIdentified

identify_type(origin_text, class_code_len) ==
    LET text == remove_html(origin_text)
    IN  IF TextLen(origin_text) < 2 THEN NotIdentified
        ELSE IF FullMatchPlus(text, AsciiLetters)
        THEN IdentificationResult("teacher", "T1a", text, NoText)
        ELSE IF FullMatchPlus(text, HanChars)
        THEN IdentificationResult("teacher", "T1b", text, NoText)
        ELSE IF text = <<>> THEN Raised("IndexError")
        ELSE IF text[1] = "T" THEN identify_teacher(Tail(text))
        ELSE IF text[1] = "C" THEN identify_class(Tail(text), class_code_len)
        ELSE identify_bare(text, class_code_len)

\* the text and class_code_len of a call
InitIdentify ==
    /\ fn_call \in [text : Texts, class_code_len : ClassCodeLens]
    /\ fn_result = <<>>
    /\ teacher_nodes = FreshNodeDicts.t
    /\ class_nodes = FreshNodeDicts.c
    /\ final_course_nodes_set = {}
    /\ ParseIdle /\ CacheIdle /\ PreloadIdle
    /\ pc = "idle"
    /\ op = "none"
    /\ req = NoReq
    /\ course_node = NoneNode
    /\ max_depth = 0
    /\ paths = <<>>
    /\ error = ""

\* identify_type(text), then identify_type on the ID of the result
CallIdentify ==
    /\ op = "none"
    /\ LET result == identify_type(fn_call.text, fn_call.class_code_len)
       IN  fn_result' = [result |-> result,
                         again |-> IF result.ID = NoText THEN result
                                   ELSE identify_type(result.ID, fn_call.class_code_len)]
    /\ op' = "identify_type"
    /\ UNCHANGED <<fn_call, teacher_nodes, class_nodes, pc, req, course_node, max_depth,
                    paths, error, final_course_nodes_set, parse_vars, cache_vars,
                    preload_vars>>

NextIdentify == CallIdentify

SpecIdentify == InitIdentify /\ [][NextIdentify]_vars

----------------------------------------------------------------------------
(* Properties *)


\* the teacher of src has, at the time of dst, a free slot long enough for
\* dst (read off the courses dict, not through get_1_hop)
HopIsFree(src, dst) ==
    /\ src.t \in DOMAIN teacher_nodes
    /\ \E k \in 1..Len(teacher_nodes[src.t]) :
         LET h == teacher_nodes[src.t][k]
         IN  SameTime(h, dst) /\ h.free /\ h.s >= dst.s

\* C1: every path rotation yields starts and ends at start, and on every
\* edge of it, the closing one included, the teacher of the source has a
\* free node at the time of the destination
C1_RotationClosure ==
    op = "rotation" =>
        \A i \in 1..Len(paths) :
            LET P == paths[i]
            IN  /\ Len(P) >= 2
                /\ P[1] = course_node
                /\ P[Len(P)] = course_node
                /\ \A j \in 1..(Len(P) - 1) : HopIsFree(P[j], P[j + 1])

\* a cycle through two other courses was yielded
C1_Witness ==
    /\ op = "rotation"
    /\ \E i \in 1..Len(paths) : Len(paths[i]) >= 4

\* C2: every path swap yields ends at a free node and has no free node
\* strictly between its first and its last element
C2_SwapTermination ==
    op = "swap" =>
        \A i \in 1..Len(paths) :
            LET P == paths[i]
            IN  /\ P[Len(P)].free
                /\ \A j \in 2..(Len(P) - 1) : ~P[j].free

\* C3: on every edge (src, dst) of a yielded path, a busy dst has the
\* streak of src and a free dst has at least the streak of src
C3_HopFit ==
    op \in {"rotation", "swap"} =>
        \A i \in 1..Len(paths) :
            \A j \in 1..(Len(paths[i]) - 1) :
                LET src == paths[i][j]
                    dst == paths[i][j + 1]
                IN  /\ ~dst.free => dst.s = src.s
                    /\ dst.free => dst.s >= src.s

\* the courses of the class of start
ClassOf(n) == IF n.c \in DOMAIN class_nodes THEN Range(class_nodes[n.c]) ELSE {}

\* start is one of k busy single-period courses of one class, taught by k
\* distinct teachers, each free at the time of every other course
IsFreeClique(start) ==
    LET cs == ClassOf(start)
    IN  /\ start \in cs
        /\ ~start.free
        /\ \A x \in cs : ~x.free /\ x.s = 1 /\ x.c = start.c
        /\ \A x, y \in cs : x # y => x.t # y.t /\ HopIsFree(x, y)

\* the sequences of 1..m pairwise distinct elements of S
Arrangements(S, m) ==
    {q \in UNION {[1..j -> S] : j \in 1..m} :
        \A a, b \in DOMAIN q : a # b => q[a] # q[b]}

Min(a, b) == IF a <= b THEN a ELSE b

ExpectedCycles(start, md) ==
    LET others == ClassOf(start) \ {start}
    IN  {<<start>> \o q \o <<start>> :
            q \in Arrangements(others, Min(Cardinality(others), md - 1))}

\* C4: from a free clique the rotation yields exactly the cycles through
\* 1..min(k-1, max_depth-1) distinct other courses, each once; 15 of them
\* for k = 4 and max_depth = 5, 9 for max_depth = 3
C4_CliqueCycles ==
    (op = "rotation" /\ Truthy(course_node) /\ IsFreeClique(course_node)) =>
        /\ error = ""
        /\ Range(paths) = ExpectedCycles(course_node, max_depth)
        /\ Len(paths) = Cardinality(ExpectedCycles(course_node, max_depth))
        /\ Cardinality(ClassOf(course_node)) = 4 =>
              /\ max_depth = 5 => Len(paths) = 15
              /\ max_depth = 3 => Len(paths) = 9

\* the 15 cycles of the 4-clique
C4_Witness ==
    /\ op = "rotation" /\ Truthy(course_node) /\ IsFreeClique(course_node)
    /\ Cardinality(ClassOf(course_node)) = 4
    /\ max_depth = 5
    /\ Len(paths) = 15

\* C6: a path rotation yields has at most max_depth + 1 nodes
C6_RotationDepthBound ==
    op = "rotation" =>
        \A i \in 1..Len(paths) : Len(paths[i]) <= max_depth + 1

\* a cycle of exactly max_depth edges was yielded, for a max_depth below
\* the length of the longest cycle of the class
C6_Witness ==
    /\ op = "rotation"
    /\ max_depth >= 2
    /\ max_depth < Cardinality(ClassOf(course_node))
    /\ \E i \in 1..Len(paths) : Len(paths[i]) = max_depth + 1

\* the paths in which start is directly followed by course n
PathsVia(n) ==
    {i \in 1..Len(paths) :
        \E j \in 1..(Len(paths[i]) - 1) : paths[i][j] = course_node /\ paths[i][j + 1] = n}

\* the slot of the teacher of x at the time of y
SlotAt(x, y) == CoursesGet(teacher_nodes[x.t], y.w, y.p)

\* the teachers of start and of its neighbour n each have a free slot at
\* the time of the other course
MutuallyFree(start, n) ==
    /\ n # start
    /\ start.t \in DOMAIN teacher_nodes /\ n.t \in DOMAIN teacher_nodes
    /\ n.t # start.t
    /\ Truthy(SlotAt(start, n)) /\ SlotAt(start, n).free
    /\ Truthy(SlotAt(n, start)) /\ SlotAt(n, start).free

\* the free slots are long enough for the course that moves into them
SlotsFit(start, n) ==
    /\ SlotAt(start, n).s >= n.s
    /\ SlotAt(n, start).s >= start.s

DirectSwap(start, n) == <<SlotAt(start, n), start, n, SlotAt(n, start)>>

IsBasicGraph == teacher_nodes = BasicGraph.t /\ class_nodes = BasicGraph.c

BasicStart == CourseNode(1, 1, 1, FALSE, "A", "101")

\* C5 as stated: whenever the two (distinct) teachers have free slots at
\* each other's time, swap yields for that neighbour exactly the one 4-node path, and
\* on the basic timetable this path is the whole output
C5_DirectSwapAsStated ==
    (op = "swap" /\ Truthy(course_node)) =>
        /\ \A n \in ClassOf(course_node) :
              MutuallyFree(course_node, n) =>
                  /\ Cardinality(PathsVia(n)) = 1
                  /\ \A i \in PathsVia(n) : paths[i] = DirectSwap(course_node, n)
        /\ (IsBasicGraph /\ course_node = BasicStart) =>
              paths = <<DirectSwap(BasicStart, CourseNode(1, 2, 1, FALSE, "B", "101"))>>

\* C5: when the two teachers have free slots at each other's time, each at
\* least as long as the course that moves into it, swap yields for that neighbour exactly the one 4-node path
\* [free slot of start's teacher, start, neighbour, free slot of the
\* neighbour's teacher]; on the basic timetable it is the whole output
C5_DirectSwap ==
    (op = "swap" /\ Truthy(course_node)) =>
        /\ \A n \in ClassOf(course_node) :
              (MutuallyFree(course_node, n) /\ SlotsFit(course_node, n)) =>
                  /\ error = ""
                  /\ Cardinality(PathsVia(n)) = 1
                  /\ \A i \in PathsVia(n) : paths[i] = DirectSwap(course_node, n)
        /\ (IsBasicGraph /\ course_node = BasicStart) =>
              paths = <<DirectSwap(BasicStart, CourseNode(1, 2, 1, FALSE, "B", "101"))>>

\* the basic timetable's single 4-node path
C5_Witness ==
    /\ op = "swap" /\ IsBasicGraph /\ course_node = BasicStart
    /\ Len(paths) = 1 /\ Len(paths[1]) = 4
    /\ paths[1][1].free /\ paths[1][4].free

IsChain(n, last_free) ==
    /\ "class_1" \in DOMAIN class_nodes
    /\ Cardinality(DOMAIN teacher_nodes) = n
    /\ teacher_nodes = ChainGraph(n, last_free).t
    /\ class_nodes = ChainGraph(n, last_free).c

ChainStart == CourseNode(1, 1, 1, FALSE, "A", "class_1")

\* C7: the inner search of swap stops at max_depth: before start a path
\* has at most 2 * max_depth + 1 nodes and after it at most
\* 2 * max_depth + 2; a chain of n teachers whose end needs depth
\* max_depth or more yields nothing and raises nothing, as the chain of
\* ten teachers does for max_depth = 5
C7_SwapDepthBound ==
    op = "swap" =>
        /\ \A i \in 1..Len(paths) :
              \E k \in 1..Len(paths[i]) :
                  /\ paths[i][k] = course_node
                  /\ k - 1 <= 2 * max_depth + 1
                  /\ Len(paths[i]) - k <= 2 * max_depth + 2
        /\ \A n \in 3..ChainN : \A last_free \in BOOLEAN :
              (IsChain(n, last_free) /\ course_node = ChainStart /\ n - 3 >= max_depth) =>
                  (paths = <<>> /\ error = "")
        /\ ((\E last_free \in BOOLEAN : IsChain(10, last_free))
              /\ course_node = ChainStart /\ max_depth = 5) => (paths = <<>> /\ error = "")

\* a chain one teacher too long for max_depth is pruned
C7_Witness ==
    /\ op = "swap"
    /\ max_depth >= 2
    /\ IsChain(max_depth + 3, TRUE)
    /\ course_node = ChainStart
    /\ paths = <<>> /\ error = ""

\* C8: fetch_course_node returns the start node of a lesson streak for
\* every period the streak covers
C8_FetchStreakStart ==
    (op = "fetch" /\ req.name \in DOMAIN teacher_nodes) =>
        \A n \in Range(teacher_nodes[req.name]) :
            (~n.free /\ n.w = req.weekday /\ n.p <= req.period /\ req.period < n.p + n.s) =>
                (error = "" /\ course_node = n)

\* the second period of a two-period lesson was asked for
C8_Witness ==
    /\ op = "fetch" /\ req.name \in DOMAIN teacher_nodes
    /\ ~course_node.free /\ course_node.s >= 2
    /\ course_node.t = req.name
    /\ req.weekday = course_node.w /\ req.period = course_node.p + 1

\* the teacher has a registered free node covering (w, q), or, having no
\* free node at all, has no lesson covering (w, q) while some class has
\* an entry there
IsFreePeriod(name, w, q) ==
    LET mine == Range(teacher_nodes[name])
        covers(n) == n.w = w /\ n.p <= q /\ q < n.p + n.s
    IN  \/ \E n \in mine : n.free /\ covers(n)
        \/ /\ \A n \in mine : ~n.free /\ ~covers(n)
           /\ \E c \in DOMAIN class_nodes : \E n \in Range(class_nodes[c]) : covers(n)

\* C9: fetch_course_node raises for an unknown teacher and for a free
\* period of the teacher, and so do rotation and swap
C9_FetchFails ==
    /\ (/\ op = "fetch"
        /\ \/ req.name \notin DOMAIN teacher_nodes
           \/ IsFreePeriod(req.name, req.weekday, req.period)) => error # ""
    /\ (op \in {"rotation", "swap"} /\ Truthy(course_node) /\ course_node.free) => error # ""

\* the graph is one the builder makes: no teacher holds a free node, and
\* the free nodes of the classes have no teacher
IsBuilderGraph ==
    /\ \A t \in DOMAIN teacher_nodes : \A n \in Range(teacher_nodes[t]) : ~n.free
    /\ \A c \in DOMAIN class_nodes : \A n \in Range(class_nodes[c]) :
          /\ n.free => n.t = NoTeacher
          /\ n.c = c

\* C10: on a graph of the builder the iteration of rotation and of swap
\* raises nothing
C10_SearchNeverRaises ==
    (op \in {"rotation", "swap"} /\ Truthy(course_node) /\ IsBuilderGraph) => error = ""

\* the nodes reachable through the courses maps
GraphNodes ==
    UNION {Range(teacher_nodes[t]) : t \in DOMAIN teacher_nodes}
    \cup UNION {Range(class_nodes[c]) : c \in DOMAIN class_nodes}

\* the courses map of every teacher and class of n returns n at n's time
MapsReturn(n) ==
    /\ \A t \in n.teachers : CoursesGet(teacher_nodes[t], n.w, n.p) = n
    /\ \A c \in n.classes : CoursesGet(class_nodes[c], n.w, n.p) = n

\* C11: after a build every busy node of the graph has one teacher and one
\* class, whose courses maps both return the node at its time; every free
\* node has no teacher and one class
C11_BuiltNodeInvariant ==
    pc = "built" =>
        \A n \in GraphNodes :
            /\ ~n.free => (/\ Cardinality(n.teachers) = 1
                           /\ Cardinality(n.classes) = 1
                           /\ MapsReturn(n))
            /\ n.free => (n.teachers = {} /\ Cardinality(n.classes) = 1)

\* C16: after a call with refresh=True the courses maps hold exactly the
\* nodes derived from the newly fetched streak log, and no node of an
\* earlier log
C16_RefreshRebuilds ==
    op = "refresh" => GraphNodes = final_course_nodes_set

RECURSIVE SumStreaks(_, _, _)
SumStreaks(log, weekday, i) ==
    IF i > Len(log) THEN 0
    ELSE (IF log[i].weekday = weekday THEN log[i].streak ELSE 0) + SumStreaks(log, weekday, i + 1)

\* C12: for every weekday row, of whatever length, the streaks of the
\* entries emitted for that weekday sum to the length of the row
C12_StreaksSumToRowLength ==
    pc = "parsed" =>
        \A d \in 1..Len(timetable) : SumStreaks(slot_log, d, 1) = Len(timetable[d])

\* a step that is a cache.fetch call for a key of the index
FetchStep == cache_call'.target \in Keys

\* C13: fetch(key, refresh) reads through memory, file and source in that
\* order.  With refresh false a memory hit is returned without reading the
\* file or the source, and a file hit is put into memory without reading
\* the source; with refresh true neither memory nor file is read.  Whenever
\* the source was read and fetch returns, the value is in both the file and
\* the memory tier, and the next fetch(key, refresh=False) returns it
\* without reading the source.
C13_ReadThrough ==
    [][FetchStep =>
        LET c == cache_call'
            k == cache_call'.target
        IN  /\ (~c.refresh /\ memory_cache[k] # None) =>
                    /\ c.reads = <<"memory">>
                    /\ c.result = memory_cache[k]
                    /\ c.err = ""
            /\ (~c.refresh /\ memory_cache[k] = None /\ file_cache[k] \in Values) =>
                    /\ c.reads = <<"memory", "file">>
                    /\ c.result = file_cache[k]
                    /\ memory_cache'[k] = file_cache[k]
            /\ c.refresh => c.reads = <<"source">>
            /\ ("source" \in Range(c.reads) /\ c.err = "") =>
                    /\ c.result \in Values
                    /\ memory_cache'[k] = c.result
                    /\ file_cache'[k] = c.result
            /\ (/\ cache_call.target = k
                /\ "source" \in Range(cache_call.reads)
                /\ cache_call.err = ""
                /\ ~c.refresh) =>
                    /\ c.result = cache_call.result
                    /\ "source" \notin Range(c.reads)
    ]_vars

\* a fetch without refresh was answered by the memory tier alone, with the
\* value the file tier holds as well
C13_Witness ==
    /\ cache_call.target \in Keys
    /\ ~cache_call.refresh
    /\ cache_call.reads = <<"memory">>
    /\ cache_call.result \in Values
    /\ file_cache[cache_call.target] = cache_call.result

\* C14: a cache file that exists but holds no valid payload is treated as
\* absent by fetch(refresh=False) on an empty memory tier: the call does not
\* raise on account of the file, goes to the source, and the file holds the
\* fresh value afterwards.
C14_CorruptFileIsAbsent ==
    [][(/\ cache_call'.target \in SlotLogKeys
        /\ ~cache_call'.refresh
        /\ memory_cache[cache_call'.target] = None
        /\ file_cache[cache_call'.target] \in CorruptFiles) =>
            /\ cache_call'.reads = <<"memory", "file", "source">>
            /\ cache_call'.err \in {"", "FetchError", "OSError"}
            /\ cache_call'.err = "" => file_cache'[cache_call'.target] = cache_call'.result
    ]_vars

\* the same statement for TimeTableCache.fetch
C14_TimetableCorruptFileIsAbsent ==
    [][(/\ cache_call'.target \in Keys
        /\ ~cache_call'.refresh
        /\ memory_cache[cache_call'.target] = None
        /\ file_cache[cache_call'.target] \in CorruptFiles) =>
            /\ cache_call'.reads = <<"memory", "file", "source">>
            /\ cache_call'.err \in {"", "FetchError", "RetryError"}
            /\ cache_call'.err = "" => file_cache'[cache_call'.target] = cache_call'.result
    ]_vars

\* the source gave a value and the file of the key does not hold it after
\* the call: the write of the file tier failed
FileWriteFailed ==
    /\ cache_call'.target \in Keys
    /\ cache_call'.net \in Values
    /\ file_cache'[cache_call'.target] # cache_call'.net

\* C15: when the source fetch succeeds and the write of the file tier
\* fails, fetch raises to its caller and the memory tier holds the fetched
\* value all the same.
C15_FileWriteFailure ==
    [][FileWriteFailed =>
        /\ cache_call'.err # ""
        /\ memory_cache'[cache_call'.target] = cache_call'.net
    ]_vars

\* the first half alone: the failure reaches the caller
C15_FailureSurfaced == [][FileWriteFailed => cache_call'.err = "FetchError"]_vars

\* the per-target fetches in flight: the tasks inside the semaphore
InFlight == Cardinality({t \in Keys : tasks[t].pc = "fetching"})

\* C17: during preload_all never more than max_concurrent per-target
\* fetches are in flight.
C17_BoundedConcurrency == InFlight <= preload_run.max_concurrent

\* the semaphore is full and another target waits for it
C17_Witness ==
    /\ preload_pc = "gather"
    /\ InFlight = preload_run.max_concurrent
    /\ \E t \in Keys : tasks[t].pc = "waiting"

\* the third attempt of the target's fetch has failed
Exhausted(t) == tasks[t].attempt = InnerAttempts /\ tasks[t].pc \in {"failed", "crashed"}

\* the target was fetched and is in both tiers
Cached(t) ==
    /\ tasks[t].pc = "done"
    /\ memory_cache[t] \in Values
    /\ file_cache[t] = memory_cache[t]

\* C18: a target whose fetch failed until its retries were exhausted is
\* logged and skipped: its task returns, preload_all goes on and does not
\* raise, and when it has completed every other target is cached unless
\* its own retries were exhausted too.
C18_ExhaustedIsSkipped ==
    \A t \in Keys : Exhausted(t) =>
        /\ tasks[t].pc = "failed"
        /\ preload_pc \in {"gather", "done"}
        /\ preload_pc = "gather" => ENABLED NextPreload
        /\ preload_pc = "done" => \A u \in Keys \ {t} : Exhausted(u) \/ Cached(u)

\* preload_all has completed with one target given up and another cached
C18_Witness ==
    /\ preload_pc = "done"
    /\ \E t \in Keys : Exhausted(t) /\ \E u \in Keys \ {t} : Cached(u)

\* C19: during one run of preload_all the timetable of a target is
\* requested from the upstream at most 3 times.
C19_AtMostThreeRequests == \A t \in Keys : requests[t] <= 3

\* C20: preload_all is attempted a second time only when the index fetch
\* of the first attempt failed, never on account of the per-target phase.
C20_RetryOnlyOnIndex == preload_run.attempt > 1 => preload_run.retry_cause = "index"

\* C24: is_free(node, mode, freed) is true exactly when the node is not
\* None and either its is_free flag is set or the mode is swap and the node
\* is in freed.
C24_IsFree ==
    op = "is_free" =>
        (fn_result.bool <=>
            /\ fn_call.src # NoneNode
            /\ \/ fn_call.src.free
               \/ fn_call.mode = "swap" /\ fn_call.src \in fn_call.freed)

\* the second half alone: in rotation mode freed never makes a busy node free
C24_RotationIgnoresFreed ==
    (op = "is_free" /\ fn_call.mode = "rotation" /\ fn_call.src # NoneNode) =>
        (fn_result.bool <=> fn_call.src.free)

\* a bwd call of get_1_hop whose source has a teacher
BwdHopCall == op = "get_1_hop" /\ fn_call.type = "bwd" /\ fn_call.src.t # NoTeacher

\* src_courses.get(dst_time) of that call
HopAtDst == CoursesGet(teacher_nodes[fn_call.src.t], fn_call.dst.w, fn_call.dst.p)

RECURSIVE EnclosingFreeStart(_, _)
EnclosingFreeStart(course, i) ==
    IF i < 1 THEN NoneNode
    ELSE LET candidate == CoursesGet(class_nodes[course.c], course.w, i)
         IN  IF candidate # NoneNode /\ candidate.free
             THEN IF candidate.s >= (course.p - i) + course.s THEN candidate ELSE NoneNode
             ELSE EnclosingFreeStart(course, i - 1)

\* C26: when the teacher of src has no course at dst's time, get_1_hop
\* (bwd) returns the enclosing free streak start of src if there is one and
\* it is free under the mode, and None otherwise.
C26_HopAbsent ==
    (BwdHopCall /\ HopAtDst = NoneNode /\ fn_call.src.c # NoClass) =>
        LET candidate == EnclosingFreeStart(fn_call.src, fn_call.src.p)
        IN  fn_result.node =
                IF candidate # NoneNode /\ is_free(candidate, fn_call.mode, fn_call.freed)
                THEN candidate ELSE NoneNode

\* the absent case as the code has it: always None
C26_AbsentGivesNone == (BwdHopCall /\ HopAtDst = NoneNode) => fn_result.node = NoneNode

\* how many times node n occurs in path P
Occurrences(P, n) == Cardinality({j \in 1..Len(P) : P[j] = n})

\* C30: no CourseNode occurs more than once in a path yielded by swap, and
\* start occurs exactly once.
C30_SwapPathSimple ==
    op = "swap" =>
        \A i \in 1..Len(paths) :
            /\ \A j \in 1..Len(paths[i]) : Occurrences(paths[i], paths[i][j]) = 1
            /\ Occurrences(paths[i], course_node) = 1

\* the second half alone: start occurs exactly once
C30_StartOnce ==
    op = "swap" => \A i \in 1..Len(paths) : Occurrences(paths[i], course_node) = 1


\* C27: a busy node is created for a class entry only when the entry names
\* exactly one counterpart teacher and that teacher's entry at the same
\* weekday and period has the same streak length, exactly one counterpart
\* equal to the class, and an equal subject; no other non-empty class entry
\* produces a node
BuildCalled == op = "build_course_node_from_log_dict"

BusyNodesOf(class_code) ==
    {n \in fn_result : ~n.free /\ n.classes = {class_code}}

\* the cross-check of the claim, with or without the streak-length condition
CrossChecked(log, class_code, with_streak) ==
    LET e == log[class_code]
    IN  /\ e # NoEntry
        /\ e.info # NoneInfo
        /\ ~e.info.counterpart_none
        /\ Len(e.info.counterpart) = 1
        /\ LET t == log[e.info.counterpart[1]]
           IN  /\ t # NoEntry
               /\ t.info # NoneInfo
               /\ with_streak => (t.s = e.s)
               /\ ~t.info.counterpart_none
               /\ t.info.counterpart = <<class_code>>
               /\ t.info.subject = e.info.subject

C27_BusyNodeCrossCheck ==
    BuildCalled =>
        \A c \in LogClasses :
            (BusyNodesOf(c) # {}) <=> CrossChecked(fn_call, c, TRUE)

\* what the code does keep: the claim with the streak-length condition left out
C27_CrossCheckIgnoringStreak ==
    BuildCalled =>
        \A c \in LogClasses :
            (BusyNodesOf(c) # {}) <=> CrossChecked(fn_call, c, FALSE)


\* C28: the index fetcher sends at most 3 requests per call and retries only
\* after a connection error or a timeout; an HTTP error response is surfaced
\* after a single request
IndexFetchRawCalled == op = "index_fetch_raw"

C28_HttpErrorNotRetried ==
    IndexFetchRawCalled =>
        /\ fn_result.requests <= 3
        /\ \A i \in 1..(fn_result.requests - 1) :
              fn_call.run[i] \in {"client_error", "timeout"}

\* what the code does keep: at most 3 requests, each one but the last failed
C28_AtMostThreeAttempts ==
    IndexFetchRawCalled =>
        /\ fn_result.requests <= 3
        /\ \A i \in 1..(fn_result.requests - 1) : fn_call.run[i] # "page"

\* C29: when _fetch_all_pages returns, a directory page whose root-named URL
\* differs from the default, or whose first request failed, was fetched again
\* at the root-named URL, and the page returned is the one at that URL
FetchAllPagesReturned == op = "_fetch_all_pages" /\ fn_result.err = ""

C29_RefetchAtRootUrl ==
    (FetchAllPagesReturned /\ fn_call.teacher_page = None /\ fn_call.class_page = None) =>
        /\ (fn_call.root_teacher_url # DEFAULT_TEACHER_PAGE \/ fn_call.teacher_first # "page")
              => fn_result.teacher.refetched
        /\ (fn_call.root_class_url # DEFAULT_CLASS_PAGE \/ fn_call.class_first # "page")
              => fn_result.class.refetched
        /\ fn_result.teacher.soup = fn_call.root_teacher_url
        /\ fn_result.class.soup = fn_call.root_class_url

\* what the code does keep: a page whose first request failed is fetched
\* again at the root-named URL, and no other page is fetched again
C29_RefetchOnlyAfterFailure ==
    FetchAllPagesReturned =>
        /\ fn_result.teacher.refetched <=> fn_call.teacher_first # "page"
        /\ fn_result.class.refetched <=> fn_call.class_first # "page"
        /\ fn_result.teacher.refetched => fn_result.teacher.soup = fn_call.root_teacher_url
        /\ fn_result.class.refetched => fn_result.class.soup = fn_call.root_class_url


\* C22: in every index the parser derives, no display name is a key of both
\* target_to_unique_info and target_to_conflicting_ids, every list of
\* target_to_conflicting_ids holds at least 2 ids, and every id of such a
\* list is a key of id_to_info
IndexParsed == op = "parse"

C22_NameMappingsConsistent ==
    IndexParsed =>
        /\ DOMAIN fn_result.target_to_unique_info
              \cap DOMAIN fn_result.target_to_conflicting_ids = {}
        /\ \A name \in DOMAIN fn_result.target_to_conflicting_ids :
              LET ids == fn_result.target_to_conflicting_ids[name]
              IN  /\ Len(ids) >= 2
                  /\ \A i \in 1..Len(ids) : ids[i] \in DOMAIN fn_result.id_to_info

\* an index with a unique name and a name that two entries of different
\* ids share
C22_Witness ==
    /\ IndexParsed
    /\ DOMAIN fn_result.target_to_unique_info # {}
    /\ \E name \in DOMAIN fn_result.target_to_conflicting_ids :
          LET ids == fn_result.target_to_conflicting_ids[name]
          IN  ids[1] # ids[2]


\* C23: for every text the key identifier accepts, identify(text) equals
\* identify(identify(text).id) when the result carries an id
Identified == op = "identify_type" /\ fn_result.result.role \in {"teacher", "class"}

C23_IdentifyIdempotent ==
    (Identified /\ fn_result.result.ID # NoText) => fn_result.again = fn_result.result

\* what the code does keep: the ID of a teacher result is identified as a
\* teacher with the same ID
C23_TeacherIdStable ==
    (Identified /\ fn_result.result.ID # NoText /\ fn_result.result.role = "teacher") =>
        /\ fn_result.again.role = "teacher"
        /\ fn_result.again.ID = fn_result.result.ID


====
